---- MODULE Spec2Model ----
(***************************************************************************)
(* A model of scrapyd/webservice.py: the request-parameter binding         *)
(* decorator, the three rendering base classes, the spider-list cache and  *)
(* the job control handlers (Schedule, Cancel, Status).                    *)
(*                                                                         *)
(* Specifications:                                                         *)
(*   SpecParam  one request at a time through param + render, the handler  *)
(*              body reduced to the outcome it hands to render;            *)
(*   SpecCache  calls of SpiderList.get / set / delete, the listing        *)
(*              command an external program that may answer anything;      *)
(*   SpecSched  Schedule requests with every kind of version argument;     *)
(*   SpecJobs   Schedule, Cancel and Status requests interleaved with the  *)
(*              host starting queued jobs and reaping exited processes.    *)
(***************************************************************************)
EXTENDS Integers, Sequences, FiniteSets, TLC

VARIABLES
    debug,      \* self.root.debug
    resp,       \* the request served by the last step and its answer
    cache,      \* SpiderList.cache: project -> (version key -> spider list)
    call,       \* the SpiderList call made in the last step and what it did
    eggs,       \* self.root.eggstorage: project -> (version -> spiders of the egg)
    queues,     \* self.root.poller.queues: project -> sequence of messages
    processes,  \* self.root.launcher.processes: slot -> process
    finished,   \* self.root.launcher.finished: finished process records
    signaled,   \* the <<pid, signal>> pairs the last step handed to
                \* transport.signalProcess
    scheduled,  \* how many jobs the scheduler has accepted so far
    effects,    \* the calls the last step made on the egg store, the projects
                \* and the listing command, in the order it made them
    changed,    \* how many requests have changed the egg store so far
    files,      \* the regular files of the host: absolute path -> content
    platform,   \* platform.system() of the host
    inflight    \* the SpiderList.set call whose listing command has answered
                \* and which has not yet touched the cache, if there is one

vars == <<debug, resp, cache, call, eggs, queues, processes, finished, signaled, scheduled,
         effects, changed, files, platform, inflight>>

\* Python's None.
None == "None"

\* A handler's return value is a record; this one is Python's None as a
\* return value.
NoneValue == [type |-> "None"]

\* http.OK, the response code of a request nobody changed.
OK == 200

(***************************************************************************)
(* Request parameter binding                                               *)
(***************************************************************************)

\* One @param(...) line: wire name, required flag, value converter.
P(name, required, type) == [name |-> name, required |-> required, type |-> type]

\* The @param stacks of the handlers, outermost decorator first.
Declared ==
    [ daemonstatus |-> << >>,
      spiderstatus |-> << P("project", TRUE, "str"), P("jobid", TRUE, "str") >>,
      spiderstorage |-> << >>,
      spiderlogdownload |-> << P("project", TRUE, "str"), P("job_id", TRUE, "str") >>,
      spiderresultdownload |-> << P("project", TRUE, "str"), P("job_id", TRUE, "str") >>,
      spiderlogs |-> << P("project", TRUE, "str"), P("jobid", TRUE, "str"),
                        P("maxlen", FALSE, "str") >>,
      spiderresults |-> << P("project", TRUE, "str"), P("configID", TRUE, "str"),
                           P("configName", TRUE, "str") >>,
      schedule |-> << P("project", TRUE, "str"), P("spider", TRUE, "str"),
                      P("_version", FALSE, "str"), P("jobid", FALSE, "str"),
                      P("priority", FALSE, "float"), P("setting", FALSE, "str") >>,
      cancel |-> << P("project", TRUE, "str"), P("job", TRUE, "str"),
                    P("signal", FALSE, "str") >>,
      addversion |-> << P("project", TRUE, "str"), P("version", TRUE, "str"),
                        P("egg", TRUE, "bytes") >>,
      listprojects |-> << >>,
      listversions |-> << P("project", TRUE, "str") >>,
      listspiders |-> << P("project", TRUE, "str"), P("_version", FALSE, "str") >>,
      status |-> << P("job", TRUE, "str"), P("project", FALSE, "str") >>,
      listjobs |-> << P("project", FALSE, "str") >>,
      delproject |-> << P("project", TRUE, "str") >>,
      delversion |-> << P("project", TRUE, "str"), P("version", TRUE, "str") >> ]

Operations == DOMAIN Declared

\* The base class of each handler.
Renderer ==
    [ daemonstatus |-> "WsResource",
      spiderstatus |-> "WsResource",
      spiderstorage |-> "JustContentResource",
      spiderlogdownload |-> "RawContentResource",
      spiderresultdownload |-> "RawContentResource",
      spiderlogs |-> "JustContentResource",
      spiderresults |-> "SpiderResults",
      schedule |-> "WsResource",
      cancel |-> "WsResource",
      addversion |-> "WsResource",
      listprojects |-> "WsResource",
      listversions |-> "WsResource",
      listspiders |-> "WsResource",
      status |-> "WsResource",
      listjobs |-> "WsResource",
      delproject |-> "WsResource",
      delversion |-> "WsResource" ]

\* b"'%b' parameter is required" % encoded
RequiredMessage(name) == << "'", name, "' parameter is required" >>

\* b"%b is invalid: %b" % (encoded, str(e).encode())
InvalidMessage(name) == << name, " is invalid: ", "str(e)" >>

\* What a handler (or a wrapper around it) hands to render:
\*   return  the handler returned `value`;
\*   error   it raised error.Error(code, message);
\*   raise   it raised another exception, whose text is `message`.
\* `code` is the response code the handler itself set (OK when it set none),
\* or, for an error.Error, the code the error carries.
Return(value, code) ==
    [kind |-> "return", value |-> value, code |-> code, message |-> << >>, ran |-> TRUE]
Error(code, message) ==
    [kind |-> "error", value |-> NoneValue, code |-> code, message |-> message, ran |-> TRUE]
Raise(message) ==
    [kind |-> "raise", value |-> NoneValue, code |-> OK, message |-> message, ran |-> TRUE]

\* A str value fails to decode (UnicodeDecodeError), a float fails to parse
\* (ValueError); bytes(value) never fails.
CanBeInvalid(decl) == decl.type # "bytes"

\* The wrappers run from the innermost outwards.
RECURSIVE param_InnermostFirst(_, _, _, _, _)
param_InnermostFirst(decls, i, present, invalid, body) ==
    IF i > Len(decls) THEN body
    ELSE LET d == decls[Len(decls) + 1 - i] IN
         IF d.name \notin present
         THEN IF d.required
              THEN [Error(OK, RequiredMessage(d.name)) EXCEPT !.ran = FALSE]
              ELSE param_InnermostFirst(decls, i + 1, present, invalid, body)
         ELSE IF d.name \in invalid /\ CanBeInvalid(d)
              THEN [Error(OK, InvalidMessage(d.name)) EXCEPT !.ran = FALSE]
              ELSE param_InnermostFirst(decls, i + 1, present, invalid, body)

\* The wrappers of a handler, run from the outermost inwards: the first
\* declared parameter that is missing though required, or present and not
\* convertible, raises; the body runs when there is none.  `i` is the
\* wrapper reached, `body` the outcome of the undecorated handler.
RECURSIVE param(_, _, _, _, _)
param(decls, i, present, invalid, body) ==
    IF i > Len(decls) THEN body
    ELSE LET d == decls[i] IN
         IF d.name \notin present
         THEN IF d.required
              THEN [Error(OK, RequiredMessage(d.name)) EXCEPT !.ran = FALSE]
              ELSE param(decls, i + 1, present, invalid, body)
         ELSE IF d.name \in invalid /\ CanBeInvalid(d)
              THEN [Error(OK, InvalidMessage(d.name)) EXCEPT !.ran = FALSE]
              ELSE param(decls, i + 1, present, invalid, body)

(***************************************************************************)
(* Response envelope framework                                             *)
(***************************************************************************)

\* Response codes the handlers set themselves.
FORBIDDEN == 403
NOT_FOUND == 404
INTERNAL_SERVER_ERROR == 500

\* The headers render sets after the body is built.
CorsHeaders ==
    {"Access-Control-Allow-Origin", "Access-Control-Allow-Methods",
     "Access-Control-Allow-Headers", "Content-Length"}

\* e.message.decode() for an error.Error, f"{type(e).__name__}: {e}" otherwise.
FailureMessage(o) ==
    IF o.kind = "error" THEN o.message ELSE << "type(e).__name__", ": " >> \o o.message

\* A response: the code on txrequest, what the body is, and the headers set.
\*   json       a JSON document: `value` with `status`, `message`, `node_name`
\*              added where the renderer adds them (None: not in the document);
\*   traceback  traceback.format_exc(), which ends with the failure's text;
\*   empty      b"";
\*   bytes      the handler's own bytes;
\*   escaped    no body: the exception left render and reached the server.
Response(code, kind, value, status, message, node, headers) ==
    [code |-> code, kind |-> kind, value |-> value, status |-> status,
     message |-> message, node_name |-> node, headers |-> headers]

\* WsResource.render that answers 500 for a failure that is no error.Error.
WsResource_render_ServerError(dbg, o) ==
    IF o.kind # "return"
    THEN IF dbg
         THEN Response(o.code, "traceback", NoneValue, None, o.message, FALSE, {})
         ELSE Response(IF o.kind = "raise" THEN INTERNAL_SERVER_ERROR ELSE o.code,
                       "json", NoneValue, "error", FailureMessage(o), TRUE,
                       CorsHeaders \cup {"Content-Type"})
    ELSE IF o.value = NoneValue
         THEN Response(o.code, "empty", NoneValue, None, << >>, FALSE, CorsHeaders)
         ELSE Response(o.code, "json", o.value, "ok", << >>, TRUE,
                       CorsHeaders \cup {"Content-Type"})

\* WsResource.render
WsResource_render(dbg, o) ==
    IF o.kind # "return"
    THEN IF dbg
         THEN Response(o.code, "traceback", NoneValue, None, o.message, FALSE, {})
         ELSE Response(o.code, "json", NoneValue, "error", FailureMessage(o), TRUE,
                       CorsHeaders \cup {"Content-Type"})
    ELSE IF o.value = NoneValue
         THEN Response(o.code, "empty", NoneValue, None, << >>, FALSE, CorsHeaders)
         ELSE Response(o.code, "json", o.value, "ok", << >>, TRUE,
                       CorsHeaders \cup {"Content-Type"})

\* JustContentResource.render
JustContentResource_render(dbg, o) ==
    IF o.kind # "return"
    THEN IF dbg
         THEN Response(o.code, "traceback", NoneValue, None, o.message, FALSE, {})
         ELSE Response(o.code, "json", NoneValue, "error", FailureMessage(o), FALSE,
                       CorsHeaders \cup {"Content-Type"})
    ELSE IF o.value = NoneValue
         THEN Response(o.code, "empty", NoneValue, None, << >>, FALSE, CorsHeaders)
         ELSE Response(o.code, "json", o.value, None, << >>, FALSE,
                       CorsHeaders \cup {"Content-Type"})

\* RawContentResource.render: no try/except around super().render(txrequest).
RawContentResource_render(dbg, o) ==
    IF o.kind # "return"
    THEN Response(OK, "escaped", NoneValue, None, o.message, FALSE, {})
    ELSE Response(o.code, "bytes", o.value, None, << >>, FALSE, {})

\* SpiderResults.render
SpiderResults_render(dbg, o) ==
    IF o.kind # "return"
    THEN IF dbg
         THEN Response(o.code, "traceback", NoneValue, None, o.message, FALSE, {})
         ELSE Response(o.code, "json", NoneValue, "error", FailureMessage(o), FALSE, {})
    ELSE Response(o.code, "bytes", o.value, None, << >>, FALSE, {})

\* The render of the operation's base class.
Render(op, dbg, o) ==
    CASE Renderer[op] = "WsResource" -> WsResource_render(dbg, o)
      [] Renderer[op] = "JustContentResource" -> JustContentResource_render(dbg, o)
      [] Renderer[op] = "RawContentResource" -> RawContentResource_render(dbg, o)
      [] Renderer[op] = "SpiderResults" -> SpiderResults_render(dbg, o)

\* A request's record: what was asked (the operation, the values bound to
\* the handler's arguments, the declared parameters the request carried and
\* those that did not convert) and what the undecorated handler did, next to
\* the response.
Answer(op, args, present, invalid, o, dbg) ==
    [op |-> op, args |-> args, present |-> present, invalid |-> invalid,
     ran |-> o.ran, outcome |-> o, response |-> Render(op, dbg, o)]

NoAnswer ==
    [op |-> None, args |-> [k \in {} |-> None], present |-> {}, invalid |-> {}, ran |-> FALSE,
     outcome |-> Return(NoneValue, OK),
     response |-> Render("daemonstatus", FALSE, Return(NoneValue, OK))]

(***************************************************************************)
(* Spider list cache                                                       *)
(***************************************************************************)

\* A dict with no keys.
EmptyDict == [k \in {} |-> None]

\* The dict with the one key k.
Single(k, v) == [x \in {k} |-> v]

\* d[k] = v
DictPut(d, k, v) == [x \in DOMAIN d \cup {k} |-> IF x = k THEN v ELSE d[x]]

\* d.pop(k, None)
DictPop(d, k) == [x \in DOMAIN d \ {k} |-> d[x]]

\* defaultdict(dict).__getitem__: reading self.cache[project] inserts an empty
\* dict when the project is not a key.
Missing(c, project) ==
    IF project \in DOMAIN c THEN c ELSE DictPut(c, project, EmptyDict)

\* What the listing command, `python -m <runner> list`, answers: its return
\* code and the lines of its standard output.
Listing(returncode, lines) == [returncode |-> returncode, lines |-> lines]

\* The environment set gives the listing command: SCRAPYD_EGG_VERSION is set
\* only `if version`, that is for a version that is neither None nor "".
Env(project, version) ==
    [SCRAPY_PROJECT |-> project,
     SCRAPYD_EGG_VERSION |-> IF version \in {None, ""} THEN None ELSE version]

\* The result of a SpiderList call: the cache after it, whether it raised
\* RunnerError, the list it returned, and the environments of the listing
\* commands it started.
Called(c, raised, spiders, ran) ==
    [cache |-> c, raised |-> raised, spiders |-> spiders, ran |-> ran]

\* SpiderList.set without the eviction of the unspecified-version entry.
SpiderList_set_NoEvict(c, project, version, run) ==
    IF run.returncode # 0
    THEN Called(c, TRUE, << >>, << Env(project, version) >>)
    ELSE LET c1 == Missing(c, project)
             c3 == [c1 EXCEPT ![project] = DictPut(@, version, run.lines)]
         IN  Called(c3, FALSE, run.lines, << Env(project, version) >>)

\* SpiderList.set that evicts the unspecified-version entry before it looks at
\* the return code of the listing command.
SpiderList_set_EvictFirst(c, project, version, run) ==
    LET c1 == Missing(c, project)
        c2 == [c1 EXCEPT ![project] = DictPop(@, None)]
    IN  IF run.returncode # 0
        THEN Called(c2, TRUE, << >>, << Env(project, version) >>)
        ELSE Called([c2 EXCEPT ![project] = DictPut(@, version, run.lines)],
                    FALSE, run.lines, << Env(project, version) >>)

\* SpiderList.set, the listing command answering `run`.
SpiderList_set(c, project, version, run) ==
    IF run.returncode # 0
    THEN Called(c, TRUE, << >>, << Env(project, version) >>)
    ELSE LET c1 == Missing(c, project)
             c2 == [c1 EXCEPT ![project] = DictPop(@, None)]
             c3 == [c2 EXCEPT ![project] = DictPut(@, version, run.lines)]
         IN  Called(c3, FALSE, run.lines, << Env(project, version) >>)

\* SpiderList.get that never looks in the cache.
SpiderList_get_NoLookup(c, project, version, run) ==
    SpiderList_set(Missing(c, project), project, version, run)

\* SpiderList.get, the listing command answering `run` if it is started.
SpiderList_get(c, project, version, run) ==
    LET c1 == Missing(c, project) IN
    IF version \in DOMAIN c1[project]
    THEN Called(c1, FALSE, c1[project][version], << >>)
    ELSE SpiderList_set(c1, project, version, run)

\* SpiderList.delete that drops the whole project whatever the version.
SpiderList_delete_WholeProject(c, project, version) ==
    Called(DictPop(c, project), FALSE, << >>, << >>)

\* SpiderList.delete
SpiderList_delete(c, project, version) ==
    IF version = None
    THEN Called(DictPop(c, project), FALSE, << >>, << >>)
    ELSE LET c1 == Missing(c, project) IN
         Called([c1 EXCEPT ![project] = DictPop(DictPop(@, None), version)],
                FALSE, << >>, << >>)

\* The call record kept in `call`.
Call(method, project, version, r) ==
    [method |-> method, project |-> project, version |-> version,
     raised |-> r.raised, spiders |-> r.spiders, ran |-> r.ran]

NoCall == Call(None, None, None, Called(EmptyDict, FALSE, << >>, << >>))

\* A SpiderList.set call between the return of communicate() (line 94) and
\* the test of the return code (line 95): `run` is what the listing command
\* answered, `since` the number of store changes when it answered.
Lookup(project, version, run, since) ==
    [project |-> project, version |-> version, run |-> run, since |-> since]

\* No such call.
NoLookup == Lookup(None, None, Listing(0, << >>), 0)

(***************************************************************************)
(* The state after construction                                            *)
(***************************************************************************)

\* The projects the daemon knows when it starts (it has a queue for each),
\* and a project name it does not know.
KnownProjects == {"p1", "p2"}
UnknownProject == "p3"
Projects == KnownProjects \cup {UnknownProject}

\* The eggs in the store when the daemon starts: p1 has the versions "1" and
\* "2", p2 has the version "1" alone.
InitialEggs ==
    [p \in KnownProjects |->
        IF p = "p1"
        THEN [v \in {"1", "2"} |-> IF v = "1" THEN << "s1" >> ELSE << "s1", "s2" >>]
        ELSE Single("1", << "s1", "s2" >>)]

\* What platform.system() answers: the two systems the code has a branch
\* for and one it has none for.
Systems == {"Linux", "Windows", "Darwin"}

Init ==
    /\ debug \in BOOLEAN
    /\ resp = NoAnswer
    /\ cache = EmptyDict
    /\ call = NoCall
    /\ eggs = InitialEggs
    /\ queues = [p \in KnownProjects |-> << >>]
    /\ processes = EmptyDict
    /\ finished = {}
    /\ signaled = {}
    /\ scheduled = 0
    /\ effects = << >>
    /\ changed = 0
    /\ files = EmptyDict
    /\ platform \in Systems
    /\ inflight = NoLookup

(***************************************************************************)
(* SpecParam: a request through the wrappers and render                    *)
(***************************************************************************)

\* b"project '%b' not found" % project.encode(), and the like.
NotFoundMessage(what, name) == << what, " '", name, "' not found" >>

Dict == [type |-> "dict"]
List == [type |-> "list"]
Bytes == [type |-> "bytes"]

\* What the undecorated handler of `op` can hand back once its parameters are
\* bound: the return statements and the raise statements of its body.
BodyOutcomes(op) ==
    CASE op \in {"daemonstatus", "listprojects", "listversions", "spiderstatus",
                 "spiderstorage"} ->
            {Return(Dict, OK)}
      [] op = "spiderlogs" ->
            {Return(Dict, OK), Return(List, OK)}
      [] op = "spiderlogdownload" ->
            {Return(Bytes, c) : c \in {OK, NOT_FOUND, INTERNAL_SERVER_ERROR}}
      [] op = "spiderresultdownload" ->
            {Return(Bytes, c) : c \in {OK, FORBIDDEN, NOT_FOUND, INTERNAL_SERVER_ERROR}}
      [] op = "spiderresults" ->
            {Return(Bytes, c) : c \in {OK, NOT_FOUND, INTERNAL_SERVER_ERROR}}
      [] op \in {"schedule", "listspiders"} ->
            {Return(Dict, OK), Error(OK, NotFoundMessage("project", "p")),
             Error(OK, NotFoundMessage("version", "v")),
             Error(OK, NotFoundMessage("spider", "s")),
             Raise(<< "stderr" >>)}
      [] op \in {"cancel", "status", "listjobs", "delproject"} ->
            {Return(Dict, OK), Error(OK, NotFoundMessage("project", "p"))}
      [] op = "delversion" ->
            {Return(Dict, OK), Error(OK, NotFoundMessage("project", "p")),
             Error(OK, NotFoundMessage("version", "v"))}
      [] op = "addversion" ->
            {Return(Dict, OK), Error(OK, << "egg is not a ZIP file" >>),
             Raise(<< "stderr" >>)}

WireNames(op) == {Declared[op][i].name : i \in 1..Len(Declared[op])}

\* One request to `op`: `present` are the declared parameters the request
\* carries, `invalid` those of them whose value does not convert, `body`
\* what the handler does if it is reached.
Handle(op, present, invalid, body) ==
    /\ resp' = Answer(op, EmptyDict, present, invalid,
                      param(Declared[op], 1, present, invalid, body), debug)
    /\ UNCHANGED <<inflight, platform, files, changed, effects, debug, cache, call, eggs, queues, processes, finished, signaled, scheduled>>

RequestOf(kind) ==
    \E op \in {o \in Operations : Renderer[o] = kind} :
    \E present \in SUBSET WireNames(op) :
    \E invalid \in SUBSET present :
    \E body \in BodyOutcomes(op) :
        Handle(op, present, invalid, body)

RequestWs == RequestOf("WsResource")
RequestJustContent == RequestOf("JustContentResource")
RequestRaw == RequestOf("RawContentResource")
RequestSpiderResults == RequestOf("SpiderResults")

NextParam == RequestWs \/ RequestJustContent \/ RequestRaw \/ RequestSpiderResults

\* Only SpiderStatus and SpiderLogs read platform.system(); the outcomes of
\* their bodies are drawn from BodyOutcomes here, whatever the system.
InitLinux == Init /\ platform = "Linux"

SpecParam == InitLinux /\ [][NextParam]_vars

\* The required parameters of resp.op that the request omits, by position.
OmittedRequired ==
    {i \in 1..Len(Declared[resp.op]) :
        Declared[resp.op][i].required /\ Declared[resp.op][i].name \notin resp.present}

FirstOmitted == CHOOSE i \in OmittedRequired : \A j \in OmittedRequired : i <= j

\* A request that carries only convertible values and omits a required one.
OmitsRequired == resp.op # None /\ resp.invalid = {} /\ OmittedRequired # {}

\* C1 (as claimed): for every operation that declares a required parameter,
\* under every renderer, a request that omits it is answered with the
\* failure text '<name>' parameter is required for the omitted name (the
\* first one in declaration order when several are omitted), the response
\* code is 200, the answer is a body of this layer and the handler body has
\* not run.
C1_MissingRequiredIsLogicalError ==
    OmitsRequired =>
        /\ resp.response.kind \in {"json", "traceback"}
        /\ resp.response.message = RequiredMessage(Declared[resp.op][FirstOmitted].name)
        /\ resp.response.code = OK
        /\ ~resp.ran

\* The request of resp went to a handler rendered by this class.
RenderedBy(kind) == resp.op # None /\ Renderer[resp.op] = kind

\* C14: status-envelope rendering.  A handler that returns a mapping yields
\* a JSON document of that mapping with status "ok" and node_name.  With
\* debug off, a failure (of the handler or of a parameter wrapper) yields the
\* JSON document {status: "error", message, node_name} with the failure's
\* message.  The response code is 200 for every logical error and for a
\* failure of the listing command, and is another code only when the failure
\* is an error.Error, whose code it then is.
C14_StatusEnvelope ==
    RenderedBy("WsResource") =>
        LET o == resp.outcome
            r == resp.response
        IN  /\ (o.kind = "return" /\ o.value # NoneValue) =>
                   /\ r.kind = "json" /\ r.value = o.value
                   /\ r.status = "ok" /\ r.node_name
            /\ (o.kind # "return" /\ ~debug) =>
                   /\ r.kind = "json" /\ r.value = NoneValue
                   /\ r.status = "error" /\ r.node_name
                   /\ r.message = FailureMessage(o)
            /\ (o.kind = "error" /\ o.code = OK) => r.code = OK
            /\ o.kind = "raise" => r.code = OK
            /\ r.code # OK => (o.kind = "error" /\ r.code = o.code)

\* With debug off, the listing command failed under a status-envelope
\* handler and the answer is the error document with code 200.
C14_Witness ==
    /\ RenderedBy("WsResource") /\ ~debug
    /\ resp.outcome.kind = "raise" /\ resp.ran
    /\ resp.response.status = "error"

\* C15 (as claimed): every response of status-envelope or content-only
\* rendering, on success and on failure, with debug on and off, carries the
\* three Access-Control headers and Content-Length.
C15_AsClaimed ==
    (RenderedBy("WsResource") \/ RenderedBy("JustContentResource")) =>
        CorsHeaders \subseteq resp.response.headers

\* The declared parameters of resp.op, by position, that the request omits
\* though required, or carries with a value that does not convert (any value
\* converts to bytes).
Failing ==
    {i \in 1..Len(Declared[resp.op]) :
        LET d == Declared[resp.op][i] IN
        \/ d.required /\ d.name \notin resp.present
        \/ d.name \in resp.present /\ d.name \in resp.invalid /\ d.type # "bytes"}

FirstFailing == CHOOSE i \in Failing : \A j \in Failing : i <= j

\* C17: the declared parameters are validated in declaration order: when
\* some are missing or malformed, the failure is the one of the first such
\* parameter in declaration order ('<name>' parameter is required, or
\* <name> is invalid: ...) and the handler body has not run; the body runs
\* when every declared parameter validates.
C17_ValidationOrder ==
    resp.op # None =>
        IF Failing # {}
        THEN LET d == Declared[resp.op][FirstFailing] IN
             /\ ~resp.ran
             /\ resp.outcome.kind = "error" /\ resp.outcome.code = OK
             /\ resp.outcome.message =
                    IF d.name \notin resp.present THEN RequiredMessage(d.name)
                    ELSE InvalidMessage(d.name)
        ELSE /\ resp.ran
             /\ resp.outcome \in BodyOutcomes(resp.op)

\* A Schedule request with a malformed _version and priority and no spider:
\* the spider, declared before them, is the one reported.
C17_Witness ==
    /\ resp.op = "schedule"
    /\ resp.present = {"project", "_version", "priority"}
    /\ resp.invalid = {"_version", "priority"}
    /\ resp.outcome.message = RequiredMessage("spider")

(***************************************************************************)
(* SpecOptions: OPTIONS requests among the others                          *)
(***************************************************************************)

\* http.NO_CONTENT
NO_CONTENT == 204

\* The render_GET and render_POST methods each handler class defines.
Implements ==
    [op \in Operations |->
        IF op \in {"schedule", "cancel", "addversion", "delproject", "delversion"}
        THEN {"POST"} ELSE {"GET"}]

\* The classes that define render_OPTIONS and methods.
HasOptions(op) == Renderer[op] \in {"WsResource", "JustContentResource"}

\* The cached property `methods`: ", ".join(methods)
methods(op) ==
    "OPTIONS, HEAD" \o (IF "GET" \in Implements[op] THEN ", GET" ELSE "")
                    \o (IF "POST" \in Implements[op] THEN ", POST" ELSE "")

\* An OPTIONS request to `op`.  resource.Resource.render looks for
\* render_OPTIONS and raises UnsupportedMethod when the class has none;
\* render_OPTIONS sets the Allow header and the code 204 and returns None,
\* which the class's render then renders.
Options(op) ==
    LET o == IF HasOptions(op) THEN Return(NoneValue, NO_CONTENT)
             ELSE [Raise(<< "UnsupportedMethod" >>) EXCEPT !.ran = FALSE]
        r == Render(op, debug, o)
    IN  /\ resp' = [op |-> op, args |-> [method |-> "OPTIONS"], present |-> {},
                    invalid |-> {}, ran |-> o.ran, outcome |-> o,
                    response |-> IF HasOptions(op)
                                 THEN [r EXCEPT !.headers = @ \cup {"Allow: " \o methods(op)}]
                                 ELSE r]
        /\ UNCHANGED <<inflight, platform, files, changed, effects, debug, cache, call, eggs, queues, processes,
                       finished, signaled, scheduled>>

RequestOptions == \E op \in Operations : Options(op)

NextOptions == NextParam \/ RequestOptions

SpecOptions == InitLinux /\ [][NextOptions]_vars

\* resp is the answer to an OPTIONS request.
IsOptions == resp.op # None /\ DOMAIN resp.args = {"method"}

\* C16 (as claimed): each of the seventeen operations answers OPTIONS with
\* the code 204 and an Allow header that lists OPTIONS, HEAD, and GET and
\* POST exactly when the operation implements them.
C16_AsClaimed ==
    IsOptions =>
        /\ resp.response.code = NO_CONTENT
        /\ \E allow \in {"OPTIONS, HEAD, GET", "OPTIONS, HEAD, POST"} :
               /\ ("Allow: " \o allow) \in resp.response.headers
               /\ (allow = "OPTIONS, HEAD, GET") = (Implements[resp.op] = {"GET"})

(***************************************************************************)
(* SpecCache: calls of the SpiderList methods                              *)
(***************************************************************************)

\* The arguments of the calls: two projects, two versions and no version.
CacheProjects == {"p1", "p2"}
CacheVersions == {"1", "2"}
VersionKeys == CacheVersions \cup {None}

\* What the listing command can print, one spider name a line.
SpiderLists == { << "s1" >>, << "s1", "s2" >> }

\* The listing command is another program: it may exit non-zero, and what it
\* prints depends on eggs this class does not see.
Listings ==
    {Listing(0, lines) : lines \in SpiderLists} \cup {Listing(1, << >>)}

JobState == <<inflight, platform, files, changed, effects, debug, resp, eggs, queues, processes, finished, signaled, scheduled>>

CallGet(project, version) ==
    \E run \in Listings :
        LET r == SpiderList_get(cache, project, version, run) IN
        /\ cache' = r.cache
        /\ call' = Call("get", project, version, r)
        /\ UNCHANGED JobState

CallSet(project, version) ==
    \E run \in Listings :
        LET r == SpiderList_set(cache, project, version, run) IN
        /\ cache' = r.cache
        /\ call' = Call("set", project, version, r)
        /\ UNCHANGED JobState

CallDelete(project, version) ==
    LET r == SpiderList_delete(cache, project, version) IN
    /\ cache' = r.cache
    /\ call' = Call("delete", project, version, r)
    /\ UNCHANGED JobState

NextCache ==
    \E project \in CacheProjects : \E version \in VersionKeys :
        \/ CallGet(project, version)
        \/ CallSet(project, version)
        \/ CallDelete(project, version)

SpecCache == InitLinux /\ [][NextCache]_vars

\* The entries cached for a project: none when the project is not a key.
Entries(c, project) == IF project \in DOMAIN c THEN c[project] ELSE EmptyDict

IsCached(c, project, version) == version \in DOMAIN Entries(c, project)

\* The step started SpiderList.set for the project (by a call of set, or by a
\* get that missed) or called delete for it.
SetOrDeleteFor(project) ==
    /\ call'.project = project
    /\ call'.method = "delete" \/ call'.ran # << >>

\* C2: a set(p, v) that succeeds leaves the list it computed under (p, v); a
\* step that runs neither set nor delete for p leaves the entries of p as
\* they are; a get(p, v) that finds (p, v) cached returns the cached list,
\* starts no listing command and leaves the cache unchanged; a get starts
\* the listing command only when (p, v) is not cached.  Together: after a
\* successful set(p, v), with no set or delete for p in between, get(p, v)
\* returns the list that set computed without a listing command.
C2_GetReturnsWhatSetCached ==
    [][ /\ (call'.method = "set" /\ ~call'.raised) =>
               /\ IsCached(cache', call'.project, call'.version)
               /\ cache'[call'.project][call'.version] = call'.spiders
        /\ \A p \in CacheProjects :
               ~SetOrDeleteFor(p) => Entries(cache', p) = Entries(cache, p)
        /\ (call'.method = "get" /\ IsCached(cache, call'.project, call'.version)) =>
               /\ ~call'.raised
               /\ call'.spiders = cache[call'.project][call'.version]
               /\ call'.ran = << >>
               /\ cache' = cache
        /\ (call'.method = "get" /\ call'.ran # << >>) =>
               ~IsCached(cache, call'.project, call'.version)
      ]_vars

\* A get that was answered from the cache, by an entry a set wrote.
C2_Witness ==
    /\ call.method = "get" /\ call.ran = << >> /\ ~call.raised
    /\ IsCached(cache, call.project, call.version)
    /\ call.spiders = cache[call.project][call.version]
    /\ call.spiders = << "s1", "s2" >>

\* C3: whenever set(p, v) with a version v other than None completes (called
\* directly, or by a get that missed), no unspecified-version entry of p is
\* cached; when p had no entry before, or only the unspecified-version one,
\* (p, v) is the only entry of p afterwards.
C3_SetEvictsUnspecified ==
    [][ (call'.ran # << >> /\ ~call'.raised /\ call'.version # None) =>
            /\ ~IsCached(cache', call'.project, None)
            /\ IsCached(cache', call'.project, call'.version)
            /\ DOMAIN Entries(cache, call'.project) \subseteq {None} =>
                   DOMAIN Entries(cache', call'.project) = {call'.version}
      ]_vars

\* set(p, "1") has completed and (p, "1") is the only entry of p.
C3_Witness ==
    /\ call.method = "set" /\ ~call.raised /\ call.version = "1"
    /\ DOMAIN Entries(cache, call.project) = {"1"}

\* C4: delete(p) removes every entry of p; delete(p, v) removes exactly the
\* entries (p, v) and (p, None) and leaves every other entry of p as it was;
\* both leave the entries of every other project as they were.
C4_DeleteFrame ==
    [][ call'.method = "delete" =>
            /\ call'.version = None => DOMAIN Entries(cache', call'.project) = {}
            /\ call'.version # None =>
                   Entries(cache', call'.project) =
                       DictPop(DictPop(Entries(cache, call'.project), None), call'.version)
            /\ \A q \in CacheProjects \ {call'.project} :
                   /\ Entries(cache', q) = Entries(cache, q)
                   /\ q \in DOMAIN cache' <=> q \in DOMAIN cache
      ]_vars

\* delete(p, v) has run and another version of p is still cached, next to
\* the entries of another project.
C4_Witness ==
    /\ call.method = "delete" /\ call.version # None
    /\ DOMAIN Entries(cache, call.project) # {}
    /\ \E q \in CacheProjects \ {call.project} : IsCached(cache, q, None)

\* C23: a set(p, v) whose listing command exits non-zero raises RunnerError
\* and leaves the cache exactly as it was: the unspecified-version entry of
\* p is not evicted and no (p, v) entry is written or overwritten.
C23_FailedSetKeepsCache ==
    [][ (call'.method = "set" /\ call'.raised) =>
            /\ cache' = cache
            /\ call'.ran = << Env(call'.project, call'.version) >>
            /\ call'.spiders = << >>
      ]_vars

\* set(p, v) has failed while p had an unspecified-version entry and an entry
\* for v.
C23_Witness ==
    /\ call.method = "set" /\ call.raised /\ call.version # None
    /\ IsCached(cache, call.project, None)
    /\ IsCached(cache, call.project, call.version)

(***************************************************************************)
(* The host: egg store, listing command, queues and launcher               *)
(***************************************************************************)

\* The most jobs the scheduler accepts in a run of the model.
MaxJobs == 2

\* The slots of the launcher (max_proc of them).
Slots == {0, 1}

\* eggstorage.get(project, version) finds an egg: with no version, the
\* project's current one (any, if it has one).
EggResolves(store, project, version) ==
    /\ project \in DOMAIN store
    /\ IF version = None THEN DOMAIN store[project] # {}
       ELSE version \in DOMAIN store[project]

\* The version the store takes for current: the greatest one.
VersionOrder == << "", "1", "2" >>
Rank(version) == CHOOSE i \in 1..Len(VersionOrder) : VersionOrder[i] = version
CurrentVersion(store, project) ==
    CHOOSE v \in DOMAIN store[project] :
        \A w \in DOMAIN store[project] : Rank(w) <= Rank(v)

\* What the listing command can answer for the environment set gives it: the
\* spiders of the egg named by SCRAPYD_EGG_VERSION, or of the current egg when
\* the variable is not set; a non-zero exit when there is no such egg, and
\* whenever the command fails for a reason of its own.
RunnerOutcomes(store, project, version) ==
    LET v == Env(project, version).SCRAPYD_EGG_VERSION IN
    {Listing(1, << >>)} \cup
        (IF ~EggResolves(store, project, v) THEN {}
         ELSE {Listing(0, store[project][IF v = None THEN CurrentVersion(store, project)
                                          ELSE v])})

\* A message of a project's queue: what scheduler.schedule was given, with
\* `args` the keyword arguments passed as **args.  _version is None when it
\* is not among them.
Message(job, spider, settings, args) ==
    [_job |-> job, name |-> spider,
     _version |-> IF "_version" \in DOMAIN args THEN args["_version"] ELSE None,
     settings |-> settings,
     args |-> [k \in DOMAIN args \ {"_version"} |-> args[k]]]

\* scheduler.schedule(project, spider, ...): the message joins the project's
\* queue.
Enqueue(q, project, message) == [q EXCEPT ![project] = Append(@, message)]

\* The messages of a sequence that do not satisfy job = _job, in order.
RECURSIVE Without(_, _)
Without(msgs, job) ==
    IF msgs = << >> THEN << >>
    ELSE IF Head(msgs)._job = job THEN Without(Tail(msgs), job)
         ELSE << Head(msgs) >> \o Without(Tail(msgs), job)

\* A process of the launcher.  `pid` tells processes apart; end_time is None
\* until the process is put with the finished ones.
Process(project, spider, job, pid) ==
    [project |-> project, spider |-> spider, job |-> job, pid |-> pid, end_time |-> None]

\* datetime.now(), the moment of the call.
Now == "now"

\* uuid.uuid1().hex: a token no job has yet; the n-th job accepted gets the
\* n-th token.
UuidHex(n) == CASE n = 1 -> "u1" [] n = 2 -> "u2" [] n = 3 -> "u3" [] OTHER -> "u4"

\* The launcher starts the job at the head of a project's queue in a free
\* slot.  (No request is served in a step of the host: resp and call are
\* reset.)
HostStart(slot, project) ==
    /\ slot \notin DOMAIN processes
    /\ queues[project] # << >>
    /\ LET m == Head(queues[project])
           pid == Cardinality(DOMAIN processes) + Cardinality(finished) + 1
       IN  processes' = DictPut(processes, slot, Process(project, m.name, m._job, pid))
    /\ queues' = [queues EXCEPT ![project] = Tail(@)]
    /\ resp' = NoAnswer
    /\ call' = NoCall
    /\ signaled' = {}
    /\ UNCHANGED <<inflight, platform, files, changed, effects, debug, cache, eggs, finished, scheduled>>

\* A running process exits: the launcher takes it out of its slot and puts
\* it with the finished ones.
HostExit(slot) ==
    /\ slot \in DOMAIN processes
    /\ processes' = DictPop(processes, slot)
    /\ finished' = finished \cup {[processes[slot] EXCEPT !.end_time = Now]}
    /\ resp' = NoAnswer
    /\ call' = NoCall
    /\ signaled' = {}
    /\ UNCHANGED <<inflight, platform, files, changed, effects, debug, cache, eggs, queues, scheduled>>

(***************************************************************************)
(* Schedule, Cancel, Status                                                *)
(***************************************************************************)

\* A setting string, split on its first "=": two parts, or one when it has
\* no "=".  dict(...) of the parts raises ValueError on a part list that is
\* not a pair.
SettingsOk(setting) == \A i \in 1..Len(setting) : Len(setting[i]) = 2
SettingsDict(setting) ==
    [k \in {setting[i][1] : i \in 1..Len(setting)} |->
        LET last == CHOOSE i \in 1..Len(setting) :
                        /\ setting[i][1] = k
                        /\ \A j \in 1..Len(setting) : setting[j][1] = k => j <= i
        IN  setting[last][2]]

\* What a handler body did: what it hands to render and the collections as
\* it leaves them.
Did(o, c, cl, q, procs, fin, sig) ==
    [outcome |-> o, cache |-> c, call |-> cl, queues |-> q,
     processes |-> procs, finished |-> fin, signaled |-> sig]

\* x is an item of the list.
In(x, list) == \E i \in 1..Len(list) : list[i] = x

\* The dict `args` of Schedule.render_POST: the first value of each parameter
\* left in txrequest.args (`extra`: the wrappers have popped the declared
\* ones), and the version under "_version" when it is not None.
Schedule_args(extra, version) ==
    [k \in DOMAIN extra \cup (IF version = None THEN {} ELSE {"_version"}) |->
        IF k = "_version" /\ version # None THEN version ELSE extra[k]]

\* The keyword arguments the call of scheduler.schedule names itself: a key
\* of **args that is one of them makes the call raise TypeError.
Keywords == {"priority", "settings", "_job"}

\* Schedule.render_POST without the check of the version against the store.
Schedule_render_POST_NoVersionCheck(project, spider, version, jobid, setting, extra, run) ==
    IF project \notin DOMAIN queues
    THEN Did(Error(OK, NotFoundMessage("project", project)),
             cache, NoCall, queues, processes, finished, {})
    ELSE LET r == SpiderList_get(cache, project, version, run)
             cl == Call("get", project, version, r)
         IN
         IF r.raised
         THEN Did(Raise(<< "stderr" >>), r.cache, cl, queues, processes, finished, {})
         ELSE IF ~In(spider, r.spiders)
         THEN Did(Error(OK, NotFoundMessage("spider", spider)),
                  r.cache, cl, queues, processes, finished, {})
         ELSE IF ~SettingsOk(setting)
         THEN Did(Raise(<< "dictionary update sequence element" >>),
                  r.cache, cl, queues, processes, finished, {})
         ELSE IF DOMAIN Schedule_args(extra, version) \cap Keywords # {}
         THEN Did(Raise(<< "got multiple values for keyword argument" >>),
                  r.cache, cl, queues, processes, finished, {})
         ELSE Did(Return([type |-> "dict", jobid |-> jobid], OK), r.cache, cl,
                  Enqueue(queues, project,
                          Message(jobid, spider, SettingsDict(setting),
                                  Schedule_args(extra, version))),
                  processes, finished, {})

\* Schedule.render_POST, the listing command answering `run` if started.
Schedule_render_POST(project, spider, version, jobid, setting, extra, run) ==
    IF project \notin DOMAIN queues
    THEN Did(Error(OK, NotFoundMessage("project", project)),
             cache, NoCall, queues, processes, finished, {})
    ELSE IF version \notin {None, ""} /\ ~EggResolves(eggs, project, version)
    THEN Did(Error(OK, NotFoundMessage("version", version)),
             cache, NoCall, queues, processes, finished, {})
    ELSE LET r == SpiderList_get(cache, project, version, run)
             cl == Call("get", project, version, r)
         IN
         IF r.raised
         THEN Did(Raise(<< "stderr" >>), r.cache, cl, queues, processes, finished, {})
         ELSE IF ~In(spider, r.spiders)
         THEN Did(Error(OK, NotFoundMessage("spider", spider)),
                  r.cache, cl, queues, processes, finished, {})
         ELSE IF ~SettingsOk(setting)
         THEN Did(Raise(<< "dictionary update sequence element" >>),
                  r.cache, cl, queues, processes, finished, {})
         ELSE IF DOMAIN Schedule_args(extra, version) \cap Keywords # {}
         THEN Did(Raise(<< "got multiple values for keyword argument" >>),
                  r.cache, cl, queues, processes, finished, {})
         ELSE Did(Return([type |-> "dict", jobid |-> jobid], OK), r.cache, cl,
                  Enqueue(queues, project,
                          Message(jobid, spider, SettingsDict(setting),
                                  Schedule_args(extra, version))),
                  processes, finished, {})

\* The slots whose process is the project's job.
Matching(procs, project, job) ==
    {k \in DOMAIN procs : procs[k].project = project /\ procs[k].job = job}

\* Cancel.render_POST that signals the processes and leaves them running
\* until they exit.
Cancel_render_POST_SignalOnly(project, job, signal) ==
    IF project \notin DOMAIN queues
    THEN Did(Error(OK, NotFoundMessage("project", project)),
             cache, NoCall, queues, processes, finished, {})
    ELSE LET left == Without(queues[project], job)
             hit == Matching(processes, project, job)
             prevstate == IF hit # {} THEN "running"
                          ELSE IF Len(left) < Len(queues[project]) THEN "pending"
                          ELSE None
         IN  Did(Return([type |-> "dict", prevstate |-> prevstate], OK),
                 cache, NoCall, [queues EXCEPT ![project] = left], processes, finished,
                 {<< processes[k].pid, signal >> : k \in hit})

\* Cancel.render_POST that forgets to put the processes with the finished
\* ones.
Cancel_render_POST_NoFinished(project, job, signal) ==
    IF project \notin DOMAIN queues
    THEN Did(Error(OK, NotFoundMessage("project", project)),
             cache, NoCall, queues, processes, finished, {})
    ELSE LET left == Without(queues[project], job)
             hit == Matching(processes, project, job)
             prevstate == IF hit # {} THEN "running"
                          ELSE IF Len(left) < Len(queues[project]) THEN "pending"
                          ELSE None
         IN  Did(Return([type |-> "dict", prevstate |-> prevstate], OK),
                 cache, NoCall, [queues EXCEPT ![project] = left],
                 [k \in DOMAIN processes \ hit |-> processes[k]], finished,
                 {<< processes[k].pid, signal >> : k \in hit})

\* Cancel.render_POST
Cancel_render_POST(project, job, signal) ==
    IF project \notin DOMAIN queues
    THEN Did(Error(OK, NotFoundMessage("project", project)),
             cache, NoCall, queues, processes, finished, {})
    ELSE LET left == Without(queues[project], job)
             hit == Matching(processes, project, job)
             prevstate == IF hit # {} THEN "running"
                          ELSE IF Len(left) < Len(queues[project]) THEN "pending"
                          ELSE None
         IN  Did(Return([type |-> "dict", prevstate |-> prevstate], OK),
                 cache, NoCall,
                 [queues EXCEPT ![project] = left],
                 [k \in DOMAIN processes \ hit |-> processes[k]],
                 finished \cup {[processes[k] EXCEPT !.end_time = Now] : k \in hit},
                 {<< processes[k].pid, signal >> : k \in hit})

\* Status.render_GET that looks at the running processes first.  (q0,
\* procs, fin: the queues, the running processes and the finished records
\* the handler reads.)
Status_render_GET_RunningFirst(q0, procs, fin, job, project) ==
    IF project # None /\ project \notin DOMAIN q0
    THEN Error(OK, NotFoundMessage("project", project))
    ELSE IF \E k \in DOMAIN procs :
                (project = None \/ procs[k].project = project) /\ procs[k].job = job
    THEN Return([type |-> "dict", currstate |-> "running"], OK)
    ELSE IF \E f \in fin : (project = None \/ f.project = project) /\ f.job = job
    THEN Return([type |-> "dict", currstate |-> "finished"], OK)
    ELSE IF \E q \in (IF project = None THEN DOMAIN q0 ELSE {project}) :
                \E i \in 1..Len(q0[q]) : q0[q][i]._job = job
    THEN Return([type |-> "dict", currstate |-> "pending"], OK)
    ELSE Return([type |-> "dict", currstate |-> None], OK)

\* Status.render_GET
Status_render_GET(q0, procs, fin, job, project) ==
    IF project # None /\ project \notin DOMAIN q0
    THEN Error(OK, NotFoundMessage("project", project))
    ELSE IF \E f \in fin : (project = None \/ f.project = project) /\ f.job = job
    THEN Return([type |-> "dict", currstate |-> "finished"], OK)
    ELSE IF \E k \in DOMAIN procs :
                (project = None \/ procs[k].project = project) /\ procs[k].job = job
    THEN Return([type |-> "dict", currstate |-> "running"], OK)
    ELSE IF \E q \in (IF project = None THEN DOMAIN q0 ELSE {project}) :
                \E i \in 1..Len(q0[q]) : q0[q][i]._job = job
    THEN Return([type |-> "dict", currstate |-> "pending"], OK)
    ELSE Return([type |-> "dict", currstate |-> None], OK)

\* The optional parameters a request carries: those given a value.
Given(names, values) == {names[i] : i \in {j \in 1..Len(names) : values[j] # None}}

\* A Schedule request.  jobid = None: the request has no jobid and the
\* default, a fresh token, is bound.  `extra`: the parameters of the request
\* that Schedule does not declare, with their first values.
Schedule(project, spider, version, jobid, setting, extra) ==
    /\ scheduled < MaxJobs
    /\ \E run \in RunnerOutcomes(eggs, project, version) :
        LET id == IF jobid = None THEN UuidHex(scheduled + 1) ELSE jobid
            present == {"project", "spider"}
                           \cup Given(<< "_version", "jobid" >>, << version, jobid >>)
                           \cup (IF setting = << >> THEN {} ELSE {"setting"})
            d == Schedule_render_POST(project, spider, version, id, setting, extra, run)
            o == param(Declared.schedule, 1, present, {}, d.outcome)
        IN  /\ resp' = Answer("schedule",
                              [project |-> project, spider |-> spider,
                               version |-> version, jobid |-> id, extra |-> extra],
                              present, {}, o, debug)
            /\ cache' = d.cache
            /\ call' = d.call
            /\ queues' = d.queues
            /\ signaled' = d.signaled
            /\ scheduled' = IF d.outcome.kind = "return" THEN scheduled + 1 ELSE scheduled
    /\ UNCHANGED <<inflight, platform, files, changed, effects, debug, eggs, processes, finished>>

\* A Cancel request.  signal = None: the request has no signal and the
\* default, "INT", is bound.
Cancel(project, job, signal) ==
    LET sig == IF signal = None THEN "INT" ELSE signal
        present == {"project", "job"} \cup Given(<< "signal" >>, << signal >>)
        d == Cancel_render_POST(project, job, sig)
        o == param(Declared.cancel, 1, present, {}, d.outcome)
    IN  /\ resp' = Answer("cancel", [project |-> project, job |-> job, signal |-> sig],
                          present, {}, o, debug)
        /\ call' = d.call
        /\ queues' = d.queues
        /\ processes' = d.processes
        /\ finished' = d.finished
        /\ signaled' = d.signaled
        /\ UNCHANGED <<inflight, platform, files, changed, effects, debug, cache, eggs, scheduled>>

\* A Status request.  project = None: the request has no project.
Status(job, project) ==
    LET present == {"job"} \cup Given(<< "project" >>, << project >>)
        o == param(Declared.status, 1, present, {},
                   Status_render_GET(queues, processes, finished, job, project))
    IN  /\ resp' = Answer("status", [job |-> job, project |-> project],
                          present, {}, o, debug)
        /\ call' = NoCall
        /\ signaled' = {}
        /\ UNCHANGED <<inflight, platform, files, changed, effects, debug, cache, eggs, queues, processes, finished, scheduled>>

(***************************************************************************)
(* SpecSched: Schedule requests                                            *)
(***************************************************************************)

\* The values Schedule requests carry.  "s2" is a spider of every egg but
\* version "1" of p1, "s3" is in no egg; "3" is no version of any project;
\* "" is an empty _version; the second setting has no "=".
Spiders == {"s2", "s3"}
Versions == {"", "1", "3"}
SuppliedJobIds == {"j1"}
Settings == { << >>, << << "kv" >> >> }

\* The daemon of the specifications of the scheduler and of the jobs runs with
\* debug off.
InitJobs == InitLinux /\ ~debug

ScheduleAny ==
    \E project \in Projects : \E spider \in Spiders :
    \E version \in Versions \cup {None} : \E setting \in Settings :
        Schedule(project, spider, version, None, setting, EmptyDict)

NextSched == ScheduleAny

SpecSched == InitJobs /\ [][NextSched]_vars

\* The step is a Schedule request answered with this error and with no job
\* put in any queue.
Refused(message) ==
    /\ resp'.outcome = Error(OK, message)
    /\ queues' = queues
    /\ scheduled' = scheduled

\* The listing of the request's project and version that the step's Schedule
\* looked in lacks the spider.
ListLacksSpider ==
    /\ call'.method = "get" /\ ~call'.raised
    /\ ~In(resp'.args.spider, call'.spiders)

\* C5 (as claimed): Schedule checks project, then version, then spider: an
\* unknown project is refused with project 'X' not found; a known project
\* with an explicit version the egg store does not resolve, with version 'V'
\* not found; a known project whose spider list for the version lacks the
\* spider, with spider 'S' not found; and no job is enqueued.
C5_AsClaimed ==
    [][ LET a == resp'.args IN
        /\ a.project \notin DOMAIN queues =>
               Refused(NotFoundMessage("project", a.project))
        /\ (a.project \in DOMAIN queues /\ a.version # None
                /\ ~EggResolves(eggs, a.project, a.version)) =>
               Refused(NotFoundMessage("version", a.version))
        /\ (a.project \in DOMAIN queues /\ ListLacksSpider) =>
               Refused(NotFoundMessage("spider", a.spider))
      ]_vars

\* C5 (amended): the same, for an explicit version that is not empty.  An
\* empty _version is not looked up in the store: the request goes on to the
\* spider check, against the listing of the project's current version.
C5_ScheduleValidation ==
    [][ LET a == resp'.args IN
        /\ a.project \notin DOMAIN queues =>
               Refused(NotFoundMessage("project", a.project))
        /\ (a.project \in DOMAIN queues /\ a.version \notin {None, ""}
                /\ ~EggResolves(eggs, a.project, a.version)) =>
               Refused(NotFoundMessage("version", a.version))
        /\ (a.project \in DOMAIN queues /\ a.version = ""
                /\ resp'.outcome.kind = "error") =>
               /\ ListLacksSpider
               /\ call'.ran # << >> => call'.ran[1].SCRAPYD_EGG_VERSION = None
        /\ (a.project \in DOMAIN queues /\ ListLacksSpider) =>
               Refused(NotFoundMessage("spider", a.spider))
      ]_vars

\* Schedule with an empty _version was refused for its spider, with a job
\* of the project waiting in the queue.
C5_Witness ==
    /\ resp.op = "schedule" /\ resp.args.version = ""
    /\ resp.outcome = Error(OK, NotFoundMessage("spider", "s3"))
    /\ resp.args.project \in DOMAIN queues
    /\ queues[resp.args.project] # << >>

(***************************************************************************)
(* SpecJobs: the life of jobs                                              *)
(***************************************************************************)

\* The job ids Cancel and Status are asked about: the supplied ones and the
\* tokens Schedule hands out.
JobIds == SuppliedJobIds \cup {UuidHex(n) : n \in 1..MaxJobs}

ScheduleJob ==
    \E project \in KnownProjects : \E jobid \in SuppliedJobIds \cup {None} :
        Schedule(project, "s1", None, jobid, << >>, EmptyDict)

CancelJob ==
    \E project \in Projects : \E job \in JobIds :
        Cancel(project, job, None)

StatusJob ==
    \E job \in JobIds : \E project \in Projects \cup {None} :
        Status(job, project)

Start == \E slot \in Slots : \E project \in DOMAIN queues : HostStart(slot, project)

Exit == \E slot \in Slots : HostExit(slot)

NextJobs == ScheduleJob \/ CancelJob \/ StatusJob \/ Start \/ Exit

SpecJobs == InitJobs /\ [][NextJobs]_vars

\* The job is in the project's queue.
IsPending(q, project, job) == \E i \in 1..Len(q[project]) : q[project][i]._job = job

\* The step serves a Cancel request for a project that has a queue.
CancelStep == resp'.op = "cancel" /\ resp'.args.project \in DOMAIN queues

\* C6 (as claimed): Cancel of a job that is pending in the project's queue
\* removes it from the queue and reports prevstate "pending"; Cancel of a job
\* that is neither in the project's queue nor running reports no prevstate
\* and changes neither the queues, nor the running, nor the finished ones.
C6_AsClaimed ==
    [][ CancelStep =>
            LET a == resp'.args IN
            /\ IsPending(queues, a.project, a.job) =>
                   /\ ~IsPending(queues', a.project, a.job)
                   /\ resp'.outcome.value.prevstate = "pending"
            /\ (~IsPending(queues, a.project, a.job)
                    /\ Matching(processes, a.project, a.job) = {}) =>
                   /\ resp'.outcome.value.prevstate = None
                   /\ UNCHANGED <<queues, processes, finished>>
      ]_vars

\* C7: Cancel of a job with running processes: each of them is signaled with
\* the request's signal, leaves the running ones and is with the finished
\* ones, with an end time, in the same step; prevstate is "running"; after
\* the step no running process is the job's, Status answers "finished" for
\* it, and every other running process is where and as it was.
C7_CancelRunning ==
    [][ (CancelStep /\ Matching(processes, resp'.args.project, resp'.args.job) # {}) =>
            LET a == resp'.args
                hit == Matching(processes, a.project, a.job)
            IN
            /\ \A k \in hit :
                   /\ << processes[k].pid, a.signal >> \in signaled'
                   /\ [processes[k] EXCEPT !.end_time = Now] \in finished'
            /\ resp'.outcome.value.prevstate = "running"
            /\ Matching(processes', a.project, a.job) = {}
            /\ Status_render_GET(queues', processes', finished', a.job, a.project)
                   .value.currstate = "finished"
            /\ DOMAIN processes' = DOMAIN processes \ hit
            /\ \A k \in DOMAIN processes' : processes'[k] = processes[k]
      ]_vars

\* A running job was cancelled while another process went on running.
C7_Witness ==
    /\ resp.op = "cancel" /\ resp.outcome.kind = "return"
    /\ resp.outcome.value.prevstate = "running"
    /\ \E f \in finished : f.job = resp.args.job /\ f.project = resp.args.project
                               /\ << f.pid, resp.args.signal >> \in signaled
    /\ DOMAIN processes # {}

\* The finished records, running processes and queued messages a Status
\* request for the job is about: those of the project, or of every project
\* when none is given.
FinishedOf(job, project) ==
    {f \in finished : f.job = job /\ (project = None \/ f.project = project)}
RunningOf(job, project) ==
    {k \in DOMAIN processes :
        processes[k].job = job /\ (project = None \/ processes[k].project = project)}
PendingOf(job, project) ==
    {q \in DOMAIN queues :
        (project = None \/ q = project) /\ IsPending(queues, q, job)}

\* C8: Status, for no project or one that has a queue, answers "finished" if
\* a finished record matches, else "running" if a running process matches,
\* else "pending" if a queued message matches, else no state; for a project
\* that has no queue it answers project not found.
C8_StatusPrecedence ==
    [][ resp'.op = "status" =>
            LET j == resp'.args.job
                p == resp'.args.project
            IN
            IF p # None /\ p \notin DOMAIN queues
            THEN resp'.outcome = Error(OK, NotFoundMessage("project", p))
            ELSE /\ resp'.outcome.kind = "return"
                 /\ resp'.outcome.value.currstate =
                        IF FinishedOf(j, p) # {} THEN "finished"
                        ELSE IF RunningOf(j, p) # {} THEN "running"
                        ELSE IF PendingOf(j, p) # {} THEN "pending"
                        ELSE None
                 /\ UNCHANGED <<queues, processes, finished>>
      ]_vars

\* Status answered "finished" for a job id that a running process has too.
C8_Witness ==
    /\ resp.op = "status" /\ resp.outcome.kind = "return"
    /\ resp.outcome.value.currstate = "finished"
    /\ FinishedOf(resp.args.job, resp.args.project) # {}
    /\ RunningOf(resp.args.job, resp.args.project) # {}

\* What Status answers for the job of the project.
Reported(q0, procs, fin, job, project) ==
    Status_render_GET(q0, procs, fin, job, project).value.currstate

\* The changes of a reported state that do not go backwards.
Forward ==
    { << None, "pending" >>, << "pending", "running" >>, << "running", "finished" >>,
      << "pending", None >> }

\* C9: in every step, a finished record stays finished and as it is; a
\* process that leaves the running ones is with the finished ones; a process
\* that joins the running ones was at the head of its project's queue; a
\* message joins a queue only by a Schedule request that is accepted; and
\* the state Status reports for a job id, in a project or in all, stays or
\* moves pending -> running -> finished or pending -> none.
C9_OneDirection ==
    [][ /\ finished \subseteq finished'
        /\ \A k \in DOMAIN processes :
               (k \in DOMAIN processes' /\ processes'[k] = processes[k])
                   \/ [processes[k] EXCEPT !.end_time = Now] \in finished'
        /\ \A k \in DOMAIN processes' :
               (k \in DOMAIN processes /\ processes'[k] = processes[k])
                   \/ /\ k \notin DOMAIN processes
                      /\ \E q \in DOMAIN queues :
                             /\ queues[q] # << >>
                             /\ queues'[q] = Tail(queues[q])
                             /\ processes'[k].project = q
                             /\ processes'[k].job = Head(queues[q])._job
                             /\ processes'[k].end_time = None
        /\ \A q \in DOMAIN queues :
               Len(queues'[q]) > Len(queues[q]) =>
                   /\ resp'.op = "schedule" /\ resp'.outcome.kind = "return"
                   /\ resp'.args.project = q
                   /\ queues'[q] = Append(queues[q], queues'[q][Len(queues'[q])])
                   /\ queues'[q][Len(queues'[q])]._job = resp'.args.jobid
        /\ \A j \in JobIds : \A p \in KnownProjects \cup {None} :
               LET before == Reported(queues, processes, finished, j, p)
                   after == Reported(queues', processes', finished', j, p)
               IN  before = after \/ << before, after >> \in Forward
      ]_vars

\* Status answers "finished" for a job id that was scheduled again and is
\* pending: the finished job did not go back.
C9_Witness ==
    /\ resp.op = "status" /\ resp.outcome.kind = "return"
    /\ resp.outcome.value.currstate = "finished"
    /\ resp.args.project # None
    /\ PendingOf(resp.args.job, resp.args.project) # {}
    /\ FinishedOf(resp.args.job, resp.args.project) # {}

\* C10 (as claimed): no two jobs among the queued messages, the running
\* processes and the finished records have the same job id.
C10_UniqueJobIds ==
    /\ \A q \in DOMAIN queues : \A i, j \in 1..Len(queues[q]) :
           i # j => queues[q][i]._job # queues[q][j]._job
    /\ \A q, r \in DOMAIN queues : \A i \in 1..Len(queues[q]) : \A j \in 1..Len(queues[r]) :
           q # r => queues[q][i]._job # queues[r][j]._job
    /\ \A q \in DOMAIN queues : \A i \in 1..Len(queues[q]) :
           /\ \A k \in DOMAIN processes : processes[k].job # queues[q][i]._job
           /\ \A f \in finished : f.job # queues[q][i]._job
    /\ \A k, l \in DOMAIN processes : k # l => processes[k].job # processes[l].job
    /\ \A k \in DOMAIN processes : \A f \in finished : f.job # processes[k].job
    /\ \A f, g \in finished : f # g => f.job # g.job

(***************************************************************************)
(* The egg store and the handlers that change it                           *)
(***************************************************************************)

\* The most requests that change the egg store in a run of the model.
MaxChanges == 3

\* An uploaded payload: whether zipfile.is_zipfile accepts it and, for an
\* egg, the spiders it has.
Egg(zip, spiders) == [zip |-> zip, spiders |-> spiders]

\* eggstorage.put(egg, project, version): the egg is the project's egg of
\* that version, in place of the one it had.
EggPut(store, project, version, egg) ==
    IF project \in DOMAIN store
    THEN [store EXCEPT ![project] = DictPut(@, version, egg.spiders)]
    ELSE DictPut(store, project, Single(version, egg.spiders))

\* root.update_projects(): there is a queue for each project of the store and
\* for no other; the queue of a project that stays keeps its messages.
UpdateProjects(q, store) ==
    [p \in DOMAIN store |-> IF p \in DOMAIN q THEN q[p] ELSE << >>]

\* What a handler of this group did: what it hands to render, the cache, the
\* SpiderList call, the store and the queues as it leaves them, and the calls
\* it made on the host, in order.
Stored(o, c, cl, store, q, fx) ==
    [outcome |-> o, cache |-> c, call |-> cl, eggs |-> store, queues |-> q, effects |-> fx]

\* b"egg is not a ZIP file (if using curl, use egg=@path not egg=path)"
NotZipMessage == << "egg is not a ZIP file (if using curl, use egg=@path not egg=path)" >>

\* The listing commands a SpiderList call started, as host calls.
Ran(r) == [i \in 1..Len(r.ran) |-> "runner"]

\* AddVersion.render_POST that stores the payload before it looks at it.
AddVersion_render_POST_PutFirst(project, version, egg, run) ==
    LET store == EggPut(eggs, project, version, egg)
        q == UpdateProjects(queues, store)
        r == SpiderList_set(cache, project, version, run)
        cl == Call("set", project, version, r)
        fx == << "eggstorage.put", "update_projects" >> \o Ran(r)
    IN  IF ~egg.zip
        THEN Stored(Error(OK, NotZipMessage), cache, NoCall, store, queues,
                    << "eggstorage.put" >>)
        ELSE IF r.raised
        THEN Stored(Raise(<< "stderr" >>), r.cache, cl, store, q, fx)
        ELSE Stored(Return([type |-> "dict", project |-> project, version |-> version,
                            spiders |-> Len(r.spiders)], OK),
                    r.cache, cl, store, q, fx)

\* AddVersion.render_POST that takes the spider list from the cache when it
\* is there.
AddVersion_render_POST_CachedList(project, version, egg, run) ==
    IF ~egg.zip
    THEN Stored(Error(OK, NotZipMessage), cache, NoCall, eggs, queues, << >>)
    ELSE LET store == EggPut(eggs, project, version, egg)
             q == UpdateProjects(queues, store)
             r == SpiderList_get(cache, project, version, run)
             cl == Call("set", project, version, r)
             fx == << "eggstorage.put", "update_projects" >> \o Ran(r)
         IN  IF r.raised
             THEN Stored(Raise(<< "stderr" >>), r.cache, cl, store, q, fx)
             ELSE Stored(Return([type |-> "dict", project |-> project,
                                 version |-> version, spiders |-> Len(r.spiders)], OK),
                         r.cache, cl, store, q, fx)

\* AddVersion.render_POST, the listing command answering `run` if started.
AddVersion_render_POST(project, version, egg, run) ==
    IF ~egg.zip
    THEN Stored(Error(OK, NotZipMessage), cache, NoCall, eggs, queues, << >>)
    ELSE LET store == EggPut(eggs, project, version, egg)
             q == UpdateProjects(queues, store)
             r == SpiderList_set(cache, project, version, run)
             cl == Call("set", project, version, r)
             fx == << "eggstorage.put", "update_projects" >> \o Ran(r)
         IN  IF r.raised
             THEN Stored(Raise(<< "stderr" >>), r.cache, cl, store, q, fx)
             ELSE Stored(Return([type |-> "dict", project |-> project,
                                 version |-> version, spiders |-> Len(r.spiders)], OK),
                         r.cache, cl, store, q, fx)

\* An Add version request that carries its three parameters.
AddVersion(project, version, egg) ==
    /\ changed < MaxChanges
    /\ \E run \in (IF egg.zip
                THEN RunnerOutcomes(EggPut(eggs, project, version, egg), project, version)
                ELSE {Listing(1, << >>)}) :
        LET d == AddVersion_render_POST(project, version, egg, run)
            present == {"project", "version", "egg"}
            o == param(Declared.addversion, 1, present, {}, d.outcome)
        IN  /\ resp' = Answer("addversion",
                              [project |-> project, version |-> version, egg |-> egg],
                              present, {}, o, debug)
            /\ cache' = d.cache
            /\ call' = d.call
            /\ eggs' = d.eggs
            /\ queues' = d.queues
            /\ effects' = d.effects
            /\ changed' = IF d.eggs # eggs THEN changed + 1 ELSE changed
            /\ signaled' = {}
            /\ UNCHANGED <<inflight, platform, files, debug, processes, finished, scheduled>>

\* ListSpiders.render_GET, the listing command answering `run` if started.
ListSpiders_render_GET(project, version, run) ==
    IF project \notin DOMAIN queues
    THEN Stored(Error(OK, NotFoundMessage("project", project)),
                cache, NoCall, eggs, queues, << >>)
    ELSE IF version \notin {None, ""} /\ ~EggResolves(eggs, project, version)
    THEN Stored(Error(OK, NotFoundMessage("version", version)),
                cache, NoCall, eggs, queues, << "eggstorage.get" >>)
    ELSE LET r == SpiderList_get(cache, project, version, run)
             cl == Call("get", project, version, r)
             fx == (IF version \in {None, ""} THEN << >> ELSE << "eggstorage.get" >>)
                       \o Ran(r)
         IN  IF r.raised
             THEN Stored(Raise(<< "stderr" >>), r.cache, cl, eggs, queues, fx)
             ELSE Stored(Return([type |-> "dict", spiders |-> r.spiders], OK),
                         r.cache, cl, eggs, queues, fx)

\* A List spiders request.  version = None: the request has no _version.
ListSpiders(project, version) ==
    \E run \in RunnerOutcomes(eggs, project, version) :
        LET d == ListSpiders_render_GET(project, version, run)
            present == {"project"} \cup Given(<< "_version" >>, << version >>)
            o == param(Declared.listspiders, 1, present, {}, d.outcome)
        IN  /\ resp' = Answer("listspiders", [project |-> project, version |-> version],
                              present, {}, o, debug)
            /\ cache' = d.cache
            /\ call' = d.call
            /\ effects' = d.effects
            /\ signaled' = {}
            /\ UNCHANGED <<inflight, platform, files, changed, debug, eggs, queues, processes, finished, scheduled>>

\* eggstorage.delete(project, version) when it finds what to delete: with no
\* version the project goes; with a version that egg goes, and the project
\* with it when it was its last one.
EggDelete(store, project, version) ==
    IF version = None \/ DOMAIN store[project] = {version}
    THEN DictPop(store, project)
    ELSE [store EXCEPT ![project] = DictPop(@, version)]

\* The signals eggstorage.delete(project, version) can give: None when it
\* deletes, ProjectNotFoundError for a project it does not have,
\* EggNotFoundError for a version the project does not have.  Which signal a
\* store gives a delete with no version is the store's choice.
StoreSignals(store, project, version) ==
    IF project \notin DOMAIN store THEN {"ProjectNotFoundError"}
    ELSE IF version = None THEN {None, "EggNotFoundError"}
    ELSE IF version \notin DOMAIN store[project] THEN {"EggNotFoundError"}
    ELSE {None}

\* DeleteProject._delete_version(project, version), the store answering
\* `signal` (a not-found signal is noted after the call in the effects).
\* version.encode() of the second handler raises AttributeError
\* when version is None.
DeleteProject_delete_version(project, version, signal) ==
    CASE signal = "ProjectNotFoundError" ->
            Stored(Error(OK, NotFoundMessage("project", project)),
                   cache, NoCall, eggs, queues, << "eggstorage.delete", signal >>)
      [] signal = "EggNotFoundError" ->
            Stored(IF version = None
                   THEN Raise(<< "'NoneType' object has no attribute 'encode'" >>)
                   ELSE Error(OK, NotFoundMessage("version", version)),
                   cache, NoCall, eggs, queues, << "eggstorage.delete", signal >>)
      [] OTHER ->
            LET store == EggDelete(eggs, project, version) IN
            Stored(Return(NoneValue, OK), cache, NoCall, store,
                   UpdateProjects(queues, store),
                   << "eggstorage.delete", "update_projects" >>)

\* The rest of the two handlers: spider_list.delete and `return {}`.
Evicted(dv, project, version) ==
    IF dv.outcome.kind # "return" THEN dv
    ELSE LET r == SpiderList_delete(dv.cache, project, version) IN
         Stored(Return(Dict, OK), r.cache, Call("delete", project, version, r),
                dv.eggs, dv.queues, dv.effects \o << "spider_list.delete" >>)

\* DeleteProject.render_POST
DeleteProject_render_POST(project, signal) ==
    Evicted(DeleteProject_delete_version(project, None, signal), project, None)

\* DeleteVersion.render_POST
DeleteVersion_render_POST(project, version, signal) ==
    Evicted(DeleteProject_delete_version(project, version, signal), project, version)

\* A Delete project request.
DeleteProject(project) ==
    /\ changed < MaxChanges
    /\ \E signal \in StoreSignals(eggs, project, None) :
        LET d == DeleteProject_render_POST(project, signal)
            o == param(Declared.delproject, 1, {"project"}, {}, d.outcome)
        IN  /\ resp' = Answer("delproject", [project |-> project, version |-> None],
                              {"project"}, {}, o, debug)
            /\ cache' = d.cache
            /\ call' = d.call
            /\ eggs' = d.eggs
            /\ queues' = d.queues
            /\ effects' = d.effects
            /\ changed' = IF d.eggs # eggs THEN changed + 1 ELSE changed
            /\ signaled' = {}
            /\ UNCHANGED <<inflight, platform, files, debug, processes, finished, scheduled>>

\* A Delete version request.
DeleteVersion(project, version) ==
    /\ changed < MaxChanges
    /\ \E signal \in StoreSignals(eggs, project, version) :
        LET d == DeleteVersion_render_POST(project, version, signal)
            o == param(Declared.delversion, 1, {"project", "version"}, {}, d.outcome)
        IN  /\ resp' = Answer("delversion", [project |-> project, version |-> version],
                              {"project", "version"}, {}, o, debug)
            /\ cache' = d.cache
            /\ call' = d.call
            /\ eggs' = d.eggs
            /\ queues' = d.queues
            /\ effects' = d.effects
            /\ changed' = IF d.eggs # eggs THEN changed + 1 ELSE changed
            /\ signaled' = {}
            /\ UNCHANGED <<inflight, platform, files, debug, processes, finished, scheduled>>

(***************************************************************************)
(* SpecEggs: Add version, Delete version, Delete project, List spiders     *)
(***************************************************************************)

\* The payloads of the Add version requests: one that is no ZIP archive and
\* an egg with a spider no egg of the store has.
Payloads == {Egg(FALSE, << >>), Egg(TRUE, << "s3" >>)}

\* The projects the requests name: one with two versions in the store and
\* one the store does not have; the versions they name.
EggProjects == {"p1", UnknownProject}
EggVersions == {"1", "2"}

AddVersionAny ==
    \E project \in EggProjects : \E version \in EggVersions : \E egg \in Payloads :
        AddVersion(project, version, egg)

DeleteProjectAny == \E project \in EggProjects : DeleteProject(project)

DeleteVersionAny ==
    \E project \in EggProjects : \E version \in EggVersions :
        DeleteVersion(project, version)

ListSpidersAny ==
    \E project \in EggProjects : \E version \in EggVersions \cup {None} :
        ListSpiders(project, version)

NextEggs == AddVersionAny \/ DeleteProjectAny \/ DeleteVersionAny \/ ListSpidersAny

SpecEggs == InitJobs /\ [][NextEggs]_vars

\* The step serves an Add version request whose payload is no ZIP archive.
NotZipStep == resp'.op = "addversion" /\ ~resp'.args.egg.zip

\* C11: an Add version request whose payload is not a ZIP archive is answered
\* with the logical error "egg is not a ZIP file ..." and changes nothing:
\* the egg store, the known projects (the queues) and the spider-list cache
\* are as before, and neither the store nor the listing command is called.
C11_NotZipRejected ==
    [][ NotZipStep =>
            /\ resp'.outcome = Error(OK, NotZipMessage)
            /\ resp'.response.code = OK
            /\ resp'.response.status = "error"
            /\ resp'.response.message = NotZipMessage
            /\ UNCHANGED <<eggs, queues, cache>>
            /\ effects' = << >>
            /\ call' = NoCall
      ]_vars

\* A payload that is no ZIP archive was refused for a project that has
\* cached spider lists, after the store had changed.
C11_Witness ==
    /\ resp.op = "addversion" /\ ~resp.args.egg.zip
    /\ resp.outcome.kind = "error"
    /\ changed > 0
    /\ resp.args.project \in DOMAIN cache
    /\ DOMAIN cache[resp.args.project] # {}

\* The step serves an Add version request whose payload is a ZIP archive.
ZipStep == resp'.op = "addversion" /\ resp'.args.egg.zip

\* C18: an Add version request with a ZIP archive puts the egg under
\* (project, version), then refreshes the known projects, then starts the
\* listing command, whether or not (project, version) is cached.  After a
\* successful answer the cache entry of (project, version) is the list the
\* command printed for the egg just stored, `spiders` is the length of that
\* list, and the project has no unspecified-version entry.
C18_AddVersionOrder ==
    [][ ZipStep =>
            LET a == resp'.args IN
            /\ effects' = << "eggstorage.put", "update_projects", "runner" >>
            /\ eggs' = EggPut(eggs, a.project, a.version, a.egg)
            /\ DOMAIN queues' = DOMAIN eggs'
            /\ resp'.outcome.kind = "return" =>
                   /\ IsCached(cache', a.project, a.version)
                   /\ cache'[a.project][a.version] = a.egg.spiders
                   /\ resp'.outcome.value.spiders = Len(a.egg.spiders)
                   /\ ~IsCached(cache', a.project, None)
      ]_vars

\* Add version has replaced version "1" of p1, whose other version has a
\* cached list, and has answered with the one spider of the new egg.
C18_Witness ==
    /\ resp.op = "addversion" /\ resp.outcome.kind = "return"
    /\ resp.args.project = "p1" /\ resp.args.version = "1"
    /\ resp.outcome.value.spiders = 1
    /\ cache["p1"]["1"] = << "s3" >>
    /\ IsCached(cache, "p1", "2")

\* The step serves a Delete project or a Delete version request.
DeleteStep == resp'.op \in {"delproject", "delversion"}

\* C19 (as claimed): in a Delete project or Delete version request, when the
\* store signals an unknown project the answer is project '<p>' not found,
\* when it signals an unknown version the answer is version '<v>' not
\* found, and in both cases the known projects are not refreshed and the
\* cache is not changed; when the store deletes, the handler then refreshes
\* the known projects and then evicts: the whole project for Delete project,
\* the version and the unspecified-version entry for Delete version.
C19_AsClaimed ==
    [][ DeleteStep =>
            LET a == resp'.args IN
            /\ In("ProjectNotFoundError", effects') =>
                   /\ resp'.outcome = Error(OK, NotFoundMessage("project", a.project))
                   /\ effects' = << "eggstorage.delete", "ProjectNotFoundError" >>
                   /\ UNCHANGED <<eggs, queues, cache>>
            /\ In("EggNotFoundError", effects') =>
                   /\ resp'.outcome.kind = "error"
                   /\ resp'.outcome.message = NotFoundMessage("version", a.version)
                   /\ effects' = << "eggstorage.delete", "EggNotFoundError" >>
                   /\ UNCHANGED <<eggs, queues, cache>>
            /\ resp'.outcome.kind = "return" =>
                   /\ effects' = << "eggstorage.delete", "update_projects",
                                    "spider_list.delete" >>
                   /\ DOMAIN queues' = DOMAIN eggs'
                   /\ IF a.version = None
                      THEN a.project \notin DOMAIN cache'
                      ELSE /\ ~IsCached(cache', a.project, a.version)
                           /\ ~IsCached(cache', a.project, None)
                           /\ \A v \in DOMAIN Entries(cache, a.project) \ {a.version, None} :
                                  /\ IsCached(cache', a.project, v)
                                  /\ cache'[a.project][v] = cache[a.project][v]
      ]_vars

(***************************************************************************)
(* List jobs                                                               *)
(***************************************************************************)

\* The items of a set, one after the other (the order a dict or a set is
\* iterated in).
RECURSIVE Items(_)
Items(S) ==
    IF S = {} THEN << >>
    ELSE LET x == CHOOSE y \in S : TRUE IN << x >> \o Items(S \ {x})

\* The lists of a sequence of lists, one after the other.
RECURSIVE Flat(_)
Flat(lists) == IF lists = << >> THEN << >> ELSE Head(lists) \o Flat(Tail(lists))

\* The entry of a queued message, of a running process and of a finished
\* record in the answer of List jobs.  (Of the times and the URLs the model
\* has end_time alone.)
PendingEntry(queue_name, message) ==
    [id |-> message._job, project |-> queue_name, spider |-> message.name,
     version |-> message._version, settings |-> message.settings,
     args |-> message.args]
RunningEntry(process) ==
    [id |-> process.job, project |-> process.project, spider |-> process.spider,
     pid |-> process.pid]
FinishedEntry(f) ==
    [id |-> f.job, project |-> f.project, spider |-> f.spider, end_time |-> f.end_time]

\* ListJobs.render_GET that forgets the project filter on the finished
\* records.
ListJobs_render_GET_AllFinished(q0, procs, fin, project) ==
    IF project # None /\ project \notin DOMAIN q0
    THEN Error(OK, NotFoundMessage("project", project))
    ELSE LET names == IF project = None THEN Items(DOMAIN q0) ELSE << project >>
             running == Items({k \in DOMAIN procs :
                                  project = None \/ procs[k].project = project})
             done == Items(fin)
         IN  Return([type |-> "dict",
                     pending |-> Flat([n \in 1..Len(names) |->
                                    [i \in 1..Len(q0[names[n]]) |->
                                        PendingEntry(names[n], q0[names[n]][i])]]),
                     running |-> [i \in 1..Len(running) |-> RunningEntry(procs[running[i]])],
                     finished |-> [i \in 1..Len(done) |-> FinishedEntry(done[i])]],
                    OK)

\* ListJobs.render_GET over the queues, the running processes and the
\* finished records it reads.
ListJobs_render_GET(q0, procs, fin, project) ==
    IF project # None /\ project \notin DOMAIN q0
    THEN Error(OK, NotFoundMessage("project", project))
    ELSE LET names == IF project = None THEN Items(DOMAIN q0) ELSE << project >>
             running == Items({k \in DOMAIN procs :
                                  project = None \/ procs[k].project = project})
             done == Items({f \in fin : project = None \/ f.project = project})
         IN  Return([type |-> "dict",
                     pending |-> Flat([n \in 1..Len(names) |->
                                    [i \in 1..Len(q0[names[n]]) |->
                                        PendingEntry(names[n], q0[names[n]][i])]]),
                     running |-> [i \in 1..Len(running) |-> RunningEntry(procs[running[i]])],
                     finished |-> [i \in 1..Len(done) |-> FinishedEntry(done[i])]],
                    OK)

\* A List jobs request.  project = None: the request has no project.
ListJobs(project) ==
    LET present == Given(<< "project" >>, << project >>)
        o == param(Declared.listjobs, 1, present, {},
                   ListJobs_render_GET(queues, processes, finished, project))
    IN  /\ resp' = Answer("listjobs", [project |-> project], present, {}, o, debug)
        /\ call' = NoCall
        /\ signaled' = {}
        /\ UNCHANGED <<inflight, platform, files, changed, effects, debug, cache, eggs, queues, processes, finished,
                       scheduled>>

(***************************************************************************)
(* SpecList: List jobs among jobs that are scheduled, started and ended    *)
(***************************************************************************)

ListJobsAny == \E project \in Projects \cup {None} : ListJobs(project)

NextList == ScheduleJob \/ Start \/ Exit \/ CancelJob \/ ListJobsAny

SpecList == InitJobs /\ [][NextList]_vars

\* How many items of the list are x.
Count(list, x) == Cardinality({i \in 1..Len(list) : list[i] = x})

\* The items of the list that are of the project, in the order of the list.
RECURSIVE OfProject(_, _)
OfProject(list, project) ==
    IF list = << >> THEN << >>
    ELSE IF Head(list).project = project
         THEN << Head(list) >> \o OfProject(Tail(list), project)
         ELSE OfProject(Tail(list), project)

\* The projects a List jobs request with this filter is about.
Scope(project) == IF project = None THEN DOMAIN queues ELSE {project}

\* C12: List jobs for a project that has no queue answers project '<p>' not
\* found.  Otherwise, with S the projects in scope (all that have a queue
\* when there is no filter, the one named otherwise): `pending` has, for each
\* project of S, the messages of its queue in queue order, tagged with that
\* project, and nothing else; `running` has one entry for each running
\* process of a project of S and nothing else; `finished` has one entry for
\* each finished record of a project of S and nothing else.
C12_ListJobsUnion ==
    resp.op = "listjobs" =>
        LET p == resp.args.project
            v == resp.outcome.value
        IN  IF p # None /\ p \notin DOMAIN queues
            THEN resp.outcome = Error(OK, NotFoundMessage("project", p))
            ELSE /\ resp.outcome.kind = "return"
                 /\ \A q \in Scope(p) :
                        OfProject(v.pending, q) =
                            [i \in 1..Len(queues[q]) |-> PendingEntry(q, queues[q][i])]
                 /\ \A i \in 1..Len(v.pending) : v.pending[i].project \in Scope(p)
                 /\ \A k \in DOMAIN processes :
                        Count(v.running, RunningEntry(processes[k])) =
                            Cardinality({l \in DOMAIN processes :
                                /\ processes[l].project \in Scope(p)
                                /\ RunningEntry(processes[l]) = RunningEntry(processes[k])})
                 /\ Len(v.running) =
                        Cardinality({k \in DOMAIN processes :
                                        processes[k].project \in Scope(p)})
                 /\ \A f \in finished :
                        Count(v.finished, FinishedEntry(f)) =
                            Cardinality({g \in finished :
                                /\ g.project \in Scope(p)
                                /\ FinishedEntry(g) = FinishedEntry(f)})
                 /\ Len(v.finished) =
                        Cardinality({f \in finished : f.project \in Scope(p)})

\* List jobs with a project filter answered while the other project had a
\* finished job and this one a pending job.
C12_Witness ==
    /\ resp.op = "listjobs" /\ resp.outcome.kind = "return"
    /\ resp.args.project # None
    /\ Len(resp.outcome.value.pending) > 0
    /\ \E f \in finished : f.project # resp.args.project

(***************************************************************************)
(* Result download                                                         *)
(***************************************************************************)

\* A string is a sequence of pieces; "/" is a piece of its own, so that a
\* string is a prefix of another as str.startswith has it ("results" is a
\* prefix of "results_old", which is << "results", "_old" >>).
Sep == "/"

\* str.startswith
StartsWith(a, b) == Len(b) <= Len(a) /\ SubSeq(a, 1, Len(b)) = b

\* os.getcwd(), the directory relative paths start from.
Cwd == << Sep, "srv" >>

\* os.path.join(a, b): b alone when b is absolute.
Join(a, b) ==
    IF b # << >> /\ b[1] = Sep THEN b
    ELSE IF a = << >> \/ a[Len(a)] = Sep THEN a \o b
    ELSE a \o << Sep >> \o b

\* path.split("/"): the names between the separators.
RECURSIVE Split(_, _)
Split(path, name) ==
    IF path = << >> THEN << name >>
    ELSE IF Head(path) = Sep THEN << name >> \o Split(Tail(path), << >>)
         ELSE Split(Tail(path), Append(name, Head(path)))

\* os.path.normpath of an absolute path, as the names left: "" and "." are
\* dropped, ".." drops the name before it (none at the root).
RECURSIVE Normal(_, _)
Normal(names, kept) ==
    IF names = << >> THEN kept
    ELSE LET n == Head(names) IN
         IF n = << >> \/ n = << "." >> THEN Normal(Tail(names), kept)
         ELSE IF n = << ".." >>
              THEN Normal(Tail(names),
                          IF kept = << >> THEN kept ELSE SubSeq(kept, 1, Len(kept) - 1))
              ELSE Normal(Tail(names), Append(kept, n))

\* "/" + "/".join(names)
RECURSIVE Joined(_)
Joined(names) ==
    IF names = << >> THEN << >>
    ELSE << Sep >> \o Head(names) \o Joined(Tail(names))

\* os.path.abspath(path)
Abspath(path) ==
    LET kept == Normal(Split(Join(Cwd, path), << >>), << >>) IN
    IF kept = << >> THEN << Sep >> ELSE Joined(kept)

\* os.path.exists(path) and os.path.isfile(path).  (The directories the
\* paths of the model go through exist, so the file a path names is the one
\* at its normal form.)
IsFile(fs, path) == Abspath(path) \in DOMAIN fs

\* A body of bytes.
Body(text) == [type |-> "bytes", body |-> text]

\* SpiderDownloadResult.render_GET over the files `fs`; `readable`: open and
\* read succeed.
SpiderDownloadResult_render_GET(fs, project, job_id, readable) ==
    LET first == << "results", Sep >> \o project \o << Sep >> \o job_id
        base_directory == << "results" >>
        directory_path == Join(Join(base_directory, project), job_id)
        absolute_path == Abspath(directory_path)
    IN  IF ~IsFile(fs, first) THEN Return(Body(<< "File not found" >>), NOT_FOUND)
        ELSE IF ~StartsWith(absolute_path, Abspath(base_directory))
        THEN Return(Body(<< "File not found" >>), FORBIDDEN)
        ELSE IF ~IsFile(fs, absolute_path)
        THEN Return(Body(<< "File not found" >>), NOT_FOUND)
        ELSE IF ~readable
        THEN Return(Body(<< "Error sending results" >>), INTERNAL_SERVER_ERROR)
        ELSE Return(Body(fs[Abspath(directory_path)]), OK)

\* A Result download request that carries its two parameters.
DownloadResult(project, job_id, readable) ==
    LET present == {"project", "job_id"}
        o == param(Declared.spiderresultdownload, 1, present, {},
                   SpiderDownloadResult_render_GET(files, project, job_id, readable))
    IN  /\ resp' = Answer("spiderresultdownload", [project |-> project, job_id |-> job_id],
                          present, {}, o, debug)
        /\ call' = NoCall
        /\ signaled' = {}
        /\ UNCHANGED <<inflight, platform, files, changed, effects, debug, cache, eggs, queues, processes,
                       finished, scheduled>>

\* A program of the host writes a file, or removes one.
HostWrite(path, content) ==
    /\ files' = DictPut(files, path, content)
    /\ resp' = NoAnswer
    /\ call' = NoCall
    /\ signaled' = {}
    /\ UNCHANGED <<inflight, platform, changed, effects, debug, cache, eggs, queues, processes, finished,
                   scheduled>>

HostRemove(path) ==
    /\ path \in DOMAIN files
    /\ files' = DictPop(files, path)
    /\ resp' = NoAnswer
    /\ call' = NoCall
    /\ signaled' = {}
    /\ UNCHANGED <<inflight, platform, changed, effects, debug, cache, eggs, queues, processes, finished,
                   scheduled>>

(***************************************************************************)
(* SpecDownload: Result download among files that come and go              *)
(***************************************************************************)

\* The files that come and go: a result of p1, a file next to the results
\* root, and a file of a directory whose name starts like the root's.
ResultFile == << Sep, "srv", Sep, "results", Sep, "p1", Sep, "r1" >>
SecretFile == << Sep, "srv", Sep, "secret" >>
SiblingFile == << Sep, "srv", Sep, "results", "_old", Sep, "r1" >>
SomeFiles == {ResultFile, SecretFile, SiblingFile}
Contents == { << "a" >>, << "b" >> }

\* The values the requests carry.
ProjectValues == { << "p1" >>, << ".." >>, << "..", Sep, "results", "_old" >> }
JobValues == { << "r1" >>, << "r2" >>, << "secret" >>, << Sep, "srv", Sep, "secret" >> }

DownloadAny ==
    \E project \in ProjectValues : \E job_id \in JobValues : \E readable \in BOOLEAN :
        DownloadResult(project, job_id, readable)

Write == \E path \in SomeFiles : \E content \in Contents : HostWrite(path, content)

Remove == \E path \in SomeFiles : HostRemove(path)

NextDownload == DownloadAny \/ Write \/ Remove

SpecDownload == InitJobs /\ [][NextDownload]_vars

\* The absolute path a Result download request resolves to, and whether it
\* is in the results root: the root's path followed by "/" starts it.
Resolved(project, job_id) == Abspath(Join(Join(<< "results" >>, project), job_id))
InRoot(path) == StartsWith(path, Abspath(<< "results" >>) \o << Sep >>)

\* C13 (as claimed): a Result download whose path resolves outside the
\* results root is answered 403 with the body "File not found", the body of
\* the 404 for a missing file in the root, whether or not there is a file at
\* that path; and no answer carries the content of a file outside the root.
C13_AsClaimed ==
    resp.op = "spiderresultdownload" =>
        LET path == Resolved(resp.args.project, resp.args.job_id) IN
        ~InRoot(path) =>
            /\ resp.response.code = FORBIDDEN
            /\ resp.response.kind = "bytes"
            /\ resp.response.value = Body(<< "File not found" >>)

(***************************************************************************)
(* SpecForward: Schedule requests that carry other parameters              *)
(***************************************************************************)

\* The parameters Schedule does not declare that the requests carry: a spider
\* argument, the name Schedule binds _version to, and a name the scheduling
\* call uses as a keyword.
ExtraNames == {"arg", "version", "_job"}
Extras == {[k \in names |-> "x"] : names \in SUBSET ExtraNames}

ScheduleExtra ==
    \E project \in {"p1"} : \E version \in {None, "", "2"} : \E extra \in Extras :
        Schedule(project, "s1", version, None, << >>, extra)

NextForward == ScheduleExtra \/ Start

SpecForward == InitJobs /\ [][NextForward]_vars

\* The step serves a Schedule request that has passed the checks of the
\* project, the version and the spider.
Forwarding ==
    /\ resp'.op = "schedule"
    /\ call'.method = "get" /\ ~call'.raised
    /\ In(resp'.args.spider, call'.spiders)

\* C20 (as claimed): a Schedule request that reaches the scheduling call
\* puts a message in the project's queue whose extra arguments are the
\* request's undeclared parameters, each with its value, and no declared
\* one; the message has the _version of the request when the request has
\* one, and none otherwise.
C20_AsClaimed ==
    [][ Forwarding =>
            LET a == resp'.args
                q == queues'[a.project]
            IN  /\ Len(q) = Len(queues[a.project]) + 1
                /\ q[Len(q)].args = a.extra
                /\ DOMAIN q[Len(q)].args \cap WireNames("schedule") = {}
                /\ q[Len(q)]._version = a.version
      ]_vars

(***************************************************************************)
(* Log tail                                                                *)
(***************************************************************************)

NOT_IMPLEMENTED == 501

\* The maxlen of a request that carries none, or one int() rejects.
DefaultMaxlen == 40

\* int(maxlen) of the texts the requests carry; any other text is a
\* ValueError.
Numerals == ("0" :> 0) @@ ("1" :> 1) @@ ("2" :> 2) @@ ("-1" :> -1)

\* if maxlen is None: maxlen = "40"; try: int(maxlen); except ValueError: 40
SpiderLogs_maxlen(maxlen) ==
    IF maxlen = None THEN DefaultMaxlen
    ELSE IF maxlen \in DOMAIN Numerals THEN Numerals[maxlen]
    ELSE DefaultMaxlen

\* A line is a sequence of pieces, " " a piece of its own.  str.strip():
RECURSIVE LStrip(_)
LStrip(line) ==
    IF line # << >> /\ Head(line) = " " THEN LStrip(Tail(line)) ELSE line
RECURSIVE RStrip(_)
RStrip(line) ==
    IF line # << >> /\ line[Len(line)] = " "
    THEN RStrip(SubSeq(line, 1, Len(line) - 1)) ELSE line
Strip(line) == RStrip(LStrip(line))

Stripped(lines) == [i \in 1..Len(lines) |-> Strip(lines[i])]

\* The last k lines, all of them when there are fewer, none when k <= 0.
Last(lines, k) ==
    LET n == Len(lines)
        m == IF k < 0 THEN 0 ELSE IF k < n THEN k ELSE n
    IN  SubSeq(lines, n - m + 1, n)

\* What `tail -n <count> <path>` writes to its standard output: the last
\* lines of the file, a count with a minus sign read as the count without;
\* nothing when it cannot open the file (it then writes to standard error,
\* which the handler does not read).
Tail_n(fs, count, path, readable) ==
    IF ~(Abspath(path) \in DOMAIN fs) \/ ~readable THEN << >>
    ELSE Last(fs[Abspath(path)], IF count < 0 THEN 0 - count ELSE count)

\* lines[start:] of Python: a negative start counts from the end.
Slice(lines, start) ==
    LET n == Len(lines)
        from == IF start < 0
                THEN (IF start + n < 0 THEN 0 ELSE start + n)
                ELSE (IF start > n THEN n ELSE start)
    IN  SubSeq(lines, from + 1, n)

\* The values the handler returns: a list of lines, or a payload.
Lines(items) == [type |-> "list", items |-> items]
Payload(code, message) == [type |-> "dict", code |-> code, message |-> message]

\* f'logs/{project}/{jobid}/log.log'
LogPath(project, jobid) ==
    << "logs", Sep >> \o project \o << Sep >> \o jobid \o << Sep, "log.log" >>

\* What can go wrong on the host while the request is served: there is no
\* tail program, the log file cannot be read, or the system refuses another
\* open file or process.
Faults == {None, "no tail", "unreadable", "OSError"}

\* SpiderLogs.render_GET on the system `system` over the files `fs`.
SpiderLogs_render_GET(fs, system, project, jobid, maxlen, fault) ==
    LET count == SpiderLogs_maxlen(maxlen)
        log_path == LogPath(project, jobid)
        notFound == Return(Payload(NOT_FOUND, << "Log file not found: " >> \o log_path), OK)
        failed == Return(Payload(INTERNAL_SERVER_ERROR,
                                 << "Error reading log file: ", "str(e)" >>), OK)
    IN  IF system = "Linux"
        THEN IF fault = "no tail" THEN notFound
             ELSE IF fault = "OSError" THEN failed
             ELSE Return(Lines(Stripped(Tail_n(fs, count, log_path,
                                               fault # "unreadable"))), OK)
        ELSE IF system = "Windows"
        THEN IF ~IsFile(fs, log_path) THEN notFound
             ELSE IF fault \in {"unreadable", "OSError"} THEN failed
             ELSE Return(Lines(Stripped(Slice(fs[Abspath(log_path)], 0 - count))), OK)
        ELSE Return(Payload(NOT_IMPLEMENTED, << "Unsupported platform: ", system >>), OK)

\* A Log tail request that carries project and jobid, and maxlen when it is
\* not None.
SpiderLogs(project, jobid, maxlen, fault) ==
    LET present == {"project", "jobid"} \cup (IF maxlen = None THEN {} ELSE {"maxlen"})
        o == param(Declared.spiderlogs, 1, present, {},
                   SpiderLogs_render_GET(files, platform, project, jobid, maxlen, fault))
    IN  /\ resp' = Answer("spiderlogs",
                          [project |-> project, jobid |-> jobid, maxlen |-> maxlen,
                           fault |-> fault],
                          present, {}, o, debug)
        /\ call' = NoCall
        /\ signaled' = {}
        /\ UNCHANGED <<inflight, platform, files, changed, effects, debug, cache, eggs, queues,
                       processes, finished, scheduled>>

(***************************************************************************)
(* SpecLogs: Log tail on every system, the log file coming and going       *)
(***************************************************************************)

LogFile == << Sep, "srv", Sep, "logs", Sep, "p1", Sep, "j1", Sep, "log.log" >>

\* A log of one line more than the default maxlen.
LongLog == [i \in 1..(DefaultMaxlen + 1) |-> IF i = 1 THEN << "a" >> ELSE << "b" >>]

Logs ==
    { << >>, << << "a" >> >>, << << "a" >>, << " ", "b" >> >>,
      << << "a" >>, << "b" >>, << "c" >> >>, LongLog }

MaxlenTexts == {None, "0", "1", "2", "-1", "many"}

TailAny ==
    \E maxlen \in MaxlenTexts : \E fault \in Faults :
        SpiderLogs(<< "p1" >>, << "j1" >>, maxlen, fault)

WriteLog == \E content \in Logs : HostWrite(LogFile, content)

RemoveLog == HostRemove(LogFile)

NextLogs == TailAny \/ WriteLog \/ RemoveLog

InitLogs == Init /\ ~debug

SpecLogs == InitLogs /\ [][NextLogs]_vars

Supported == {"Linux", "Windows"}

\* The last step served a Log tail request.
Tailed == resp.op = "spiderlogs" /\ resp.outcome.kind = "return"

\* The payload the last step returned has the code.
Paid(code) ==
    /\ resp.outcome.value.type = "dict"
    /\ resp.outcome.value.code = code

\* C21 (as claimed): a Log tail request on a supported system for a log
\* file that does not exist returns the not-found payload (code 404); on
\* another system it returns the not-implemented payload (code 501); when
\* the file is there and it cannot be read, or the system refuses the
\* resources to read it, it returns the internal-error payload (code 500).
C21_AsClaimed ==
    Tailed =>
        LET a == resp.args
            missing == ~IsFile(files, LogPath(a.project, a.jobid))
        IN  /\ platform \notin Supported => Paid(NOT_IMPLEMENTED)
            /\ (platform \in Supported /\ missing) => Paid(NOT_FOUND)
            /\ (platform \in Supported /\ ~missing /\ a.fault \in {"unreadable", "OSError"}) =>
                   Paid(INTERNAL_SERVER_ERROR)

\* C22 (as claimed): a Log tail request for a log file that is there and is
\* read returns, on either supported system, the last min(maxlen, n) of the
\* n lines of the file in file order, without the white space around them;
\* maxlen is 40 when the request has none or one that is not a number, and
\* no line is returned when maxlen is 0.
C22_AsClaimed ==
    Tailed =>
        LET a == resp.args
            path == LogPath(a.project, a.jobid)
            count == IF a.maxlen \in DOMAIN Numerals THEN Numerals[a.maxlen] ELSE DefaultMaxlen
        IN  (IsFile(files, path) /\ a.fault = None) =>
                \A system \in Supported :
                    SpiderLogs_render_GET(files, system, a.project, a.jobid, a.maxlen, None)
                        = Return(Lines(Stripped(Last(files[Abspath(path)], count))), OK)

(***************************************************************************)
(* Daemon status, and SpecViews: the three views of the jobs               *)
(***************************************************************************)

\* sum(iterable) of a sequence of numbers.
RECURSIVE Sum(_)
Sum(numbers) == IF numbers = << >> THEN 0 ELSE Head(numbers) + Sum(Tail(numbers))

\* DaemonStatus.render_GET that counts the queues, not the messages in them.
DaemonStatus_render_GET_QueuesCounted(q0, procs, fin) ==
    Return([type |-> "dict",
            pending |-> Cardinality(DOMAIN q0),
            running |-> Cardinality(DOMAIN procs),
            finished |-> Cardinality(fin)],
           OK)

\* DaemonStatus.render_GET
DaemonStatus_render_GET(q0, procs, fin) ==
    LET names == Items(DOMAIN q0) IN
    Return([type |-> "dict",
            pending |-> Sum([n \in 1..Len(names) |-> Len(q0[names[n]])]),
            running |-> Cardinality(DOMAIN procs),
            finished |-> Cardinality(fin)],
           OK)

\* A Daemon status request.
DaemonStatus ==
    LET o == param(Declared.daemonstatus, 1, {}, {},
                   DaemonStatus_render_GET(queues, processes, finished))
    IN  /\ resp' = Answer("daemonstatus", EmptyDict, {}, {}, o, debug)
        /\ call' = NoCall
        /\ signaled' = {}
        /\ UNCHANGED <<inflight, platform, files, changed, effects, debug, cache, eggs, queues,
                       processes, finished, scheduled>>

ListAll == ListJobs(None)

StatusAll == \E job \in JobIds : Status(job, None)

NextViews ==
    ScheduleJob \/ Start \/ Exit \/ CancelJob \/ DaemonStatus \/ ListAll \/ StatusAll

SpecViews == InitJobs /\ [][NextViews]_vars

\* The job ids of the entries of a list of List jobs.
Ids(list) == {list[i].id : i \in 1..Len(list)}

\* C24: in every state the three views, asked with no project filter, agree:
\* the pending, running and finished counts of Daemon status are the lengths
\* of the three lists of List jobs; Status of a job id has currstate null
\* exactly when the id is in none of the three lists, and otherwise the id is
\* in the list that currstate names; and a request for one of the views is
\* answered with the view of the state it was served in.
C24_ViewsAgree ==
    LET d == DaemonStatus_render_GET(queues, processes, finished)
        l == ListJobs_render_GET(queues, processes, finished, None)
        lists == l.value
    IN  /\ d.value.pending = Len(lists.pending)
        /\ d.value.running = Len(lists.running)
        /\ d.value.finished = Len(lists.finished)
        /\ \A job \in JobIds :
               LET c == Status_render_GET(queues, processes, finished, job, None).value.currstate
               IN  /\ c = None <=>
                          job \notin Ids(lists.pending) \cup Ids(lists.running)
                                         \cup Ids(lists.finished)
                   /\ c # None => job \in Ids(lists[c])
        /\ resp.op = "daemonstatus" => resp.outcome = d
        /\ (resp.op = "listjobs" /\ resp.args.project = None) => resp.outcome = l
        /\ (resp.op = "status" /\ resp.args.project = None) =>
               resp.outcome = Status_render_GET(queues, processes, finished,
                                                resp.args.job, None)

\* Daemon status answered while a job was queued and another was running.
C24_Witness ==
    /\ resp.op = "daemonstatus"
    /\ resp.outcome.value.pending = 1
    /\ resp.outcome.value.running = 1
    /\ \E job \in JobIds :
           Status_render_GET(queues, processes, finished, job, None).value.currstate
               = "running"

(***************************************************************************)
(* SpecCoherent: the cache while requests change the egg store             *)
(***************************************************************************)

\* The version keys the List spiders and Schedule requests carry: none, the
\* empty string, and the versions of the store.
AskedVersions == {None, ""} \cup EggVersions

AddEgg ==
    \E version \in EggVersions : AddVersion("p1", version, Egg(TRUE, << "s3" >>))

DeleteEgg == \E version \in EggVersions : DeleteVersion("p1", version)

DeleteEggs == DeleteProject("p1")

ListEgg == \E version \in AskedVersions : ListSpiders("p1", version)

ScheduleEgg ==
    \E version \in {None, ""} : Schedule("p1", "s1", version, None, << >>, EmptyDict)

NextCoherent == AddEgg \/ DeleteEgg \/ DeleteEggs \/ ListEgg \/ ScheduleEgg

SpecCoherent == InitJobs /\ [][NextCoherent]_vars

\* What the listing command would print now for a cached key: the spiders of
\* the egg the key resolves to in the store as it is.
Fresh(project, version) ==
    LET v == Env(project, version).SCRAPYD_EGG_VERSION IN
    /\ EggResolves(eggs, project, v)
    /\ cache[project][version] =
           eggs[project][IF v = None THEN CurrentVersion(eggs, project) ELSE v]

\* C25 (as claimed): after any sequence of Add version, Delete version,
\* Delete project, List spiders and Schedule requests, every cached entry is
\* the list the listing command would print now for its project and version
\* key; a key that is None or the empty string stands for the version the
\* store takes for current.
C25_AsClaimed ==
    \A project \in DOMAIN cache : \A version \in DOMAIN cache[project] :
        Fresh(project, version)

(***************************************************************************)
(* SpecRace: a lookup whose listing command runs while the store changes   *)
(***************************************************************************)

\* A List spiders request up to the return of communicate().
ListSpidersBegin(project, version) ==
    /\ inflight = NoLookup
    /\ project \in DOMAIN queues
    /\ version \in {None, ""} \/ EggResolves(eggs, project, version)
    /\ ~IsCached(cache, project, version)
    /\ \E run \in RunnerOutcomes(eggs, project, version) :
           inflight' = Lookup(project, version, run, changed)
    /\ cache' = Missing(cache, project)
    /\ resp' = NoAnswer
    /\ call' = NoCall
    /\ effects' = << "runner" >>
    /\ signaled' = {}
    /\ UNCHANGED <<platform, files, changed, debug, eggs, queues, processes, finished,
                   scheduled>>

\* The rest of that request: lines 95-107 of set on the cache as it is now,
\* and the answer.
ListSpidersEnd ==
    /\ inflight # NoLookup
    /\ LET project == inflight.project
           version == inflight.version
           r == SpiderList_set(cache, project, version, inflight.run)
           present == {"project"} \cup Given(<< "_version" >>, << version >>)
           o == param(Declared.listspiders, 1, present, {},
                      IF r.raised THEN Raise(<< "stderr" >>)
                      ELSE Return([type |-> "dict", spiders |-> r.spiders], OK))
       IN  /\ resp' = Answer("listspiders", [project |-> project, version |-> version],
                             present, {}, o, debug)
           /\ cache' = r.cache
           /\ call' = Call("get", project, version, r)
    /\ inflight' = NoLookup
    /\ effects' = << >>
    /\ signaled' = {}
    /\ UNCHANGED <<platform, files, changed, debug, eggs, queues, processes, finished,
                   scheduled>>

LookupBegin == ListSpidersBegin("p1", None)

NextRace == LookupBegin \/ ListSpidersEnd \/ AddEgg \/ DeleteEgg \/ ListEgg

SpecRace == InitJobs /\ [][NextRace]_vars

\* The step ends an unspecified-version lookup during which a request has
\* changed the store.
Overtaken ==
    /\ inflight # NoLookup /\ inflight' = NoLookup
    /\ inflight.version = None
    /\ inflight.since < changed

\* C26 (as claimed): when an unspecified-version lookup of p that missed the
\* cache ends after an Add version or a Delete version of p has run to
\* completion during its listing command, the cache has no
\* unspecified-version entry of p afterwards (the only one it could have is
\* the list the lookup computed before the store changed).
C26_AsClaimed ==
    [][ Overtaken => ~IsCached(cache', inflight.project, None) ]_vars

====
